---- MODULE Spec2Model ----
(***************************************************************************)
(* Air-Piano (src/air_piano.py): the gesture-to-sound state machine of     *)
(* EnhancedAirPiano.  The main loop (run) is one thread: it reads a frame, *)
(* processes the hands of the frame and then handles at most one key.      *)
(* Every handler of the main loop is one atomic action.  The background    *)
(* threads the handlers start (stop_after_delay, the echo timers) have no  *)
(* lock: each of their accesses to shared state is a step of its own, and  *)
(* the steps interleave freely with the main loop and with each other.     *)
(* Time is counted in milliseconds.                                        *)
(***************************************************************************)
EXTENDS Integers, Sequences, FiniteSets, Bags, TLC

(* ------------------------------ bounds --------------------------------- *)

\* At most this many stop_after_delay threads are alive at once.
MaxReleases == 1

\* The same, where the threads race each other (SpecRelease).
MaxRacing == 2

\* At most this many echo timers are alive at once.
MaxEchoes == 2

\* At most this many events are kept in recorded_notes.
MaxLog == 3

\* One step of the clock, in milliseconds.
TickMs == 400

\* The recording clock (time.time() - recording_start_time) saturates here.
MaxClock == 400

(* ------------------------- program constants --------------------------- *)

sustain_time == 800

pinch_threshold == 30

screen_width == 1280

PinchVelocity == 120

OffVelocity == 127

DefaultVelocity == 80

BendCenter == 8192

BendMax == 16383

EchoDelay1 == 80

EchoDelay2 == 160

LandmarkCount == 21

pinch_chord_notes == <<84, 88, 91>>

finger_names == <<"thumb", "index", "middle", "ring", "pinky">>

\* list(self.scales.keys()): the dictionary's insertion order.
scale_names == <<"D_Major", "C_Major", "Pentatonic">>

scales ==
  [ D_Major |->
      [ left  |-> [ thumb |-> <<62, 66, 69>>, index |-> <<64, 67, 71>>,
                    middle |-> <<66, 69, 73>>, ring |-> <<67, 71, 74>>,
                    pinky |-> <<69, 73, 76>> ],
        right |-> [ thumb |-> <<74, 78, 81>>, index |-> <<76, 79, 83>>,
                    middle |-> <<78, 81, 85>>, ring |-> <<79, 83, 86>>,
                    pinky |-> <<81, 85, 88>> ] ],
    C_Major |->
      [ left  |-> [ thumb |-> <<60, 64, 67>>, index |-> <<62, 65, 69>>,
                    middle |-> <<64, 67, 71>>, ring |-> <<65, 69, 72>>,
                    pinky |-> <<67, 71, 74>> ],
        right |-> [ thumb |-> <<72, 76, 79>>, index |-> <<74, 77, 81>>,
                    middle |-> <<76, 79, 83>>, ring |-> <<77, 81, 84>>,
                    pinky |-> <<79, 83, 86>> ] ],
    Pentatonic |->
      [ left  |-> [ thumb |-> <<60, 64, 67>>, index |-> <<62, 67, 69>>,
                    middle |-> <<64, 69, 72>>, ring |-> <<67, 72, 74>>,
                    pinky |-> <<69, 74, 77>> ],
        right |-> [ thumb |-> <<72, 76, 79>>, index |-> <<74, 79, 81>>,
                    middle |-> <<76, 81, 84>>, ring |-> <<79, 84, 86>>,
                    pinky |-> <<81, 86, 89>> ] ] ]

Sides == {"left", "right"}

FingerSet == {finger_names[i] : i \in 1..Len(finger_names)}

SeqRange(s) == {s[i] : i \in 1..Len(s)}

AllNotes ==
  UNION {SeqRange(scales[s][h][f]) :
           s \in SeqRange(scale_names), h \in Sides, f \in FingerSet}
  \cup SeqRange(pinch_chord_notes)

(* ------------------------------- state --------------------------------- *)

VARIABLES
  current_scale,        \* self.current_scale
  prev_states,          \* self.prev_states[side][finger], 0 or 1
  active_notes,         \* self.active_notes
  active_keys,          \* self.active_keys, as <<side, finger>> pairs
  pinch_chord_playing,  \* self.pinch_chord_playing
  recording,            \* self.recording
  recorded_notes,       \* self.recorded_notes
  rec_age,              \* time.time() - self.recording_start_time; -1: None
  echo_enabled,         \* self.echo_enabled
  releases,             \* bag of the stop_after_delay threads alive
  echoes,               \* bag of the threading.Timer echo threads alive
  playbacks,            \* bag of the playback_thread_func threads alive
  loop_pc,              \* where the main loop is: "frame" or "key", or where
                        \* cleanup is: "clearing", "closing", "closed"
  cleanup_notes,        \* list(self.active_notes), as cleanup's loop took it
  last_msg,             \* per note, the last message the synthesizer got
  last_op,              \* the handler or thread step taken last
  actor,                \* the thread that took it, as it was before the step
  pre,                  \* the state that step started from (see Before)
  frame,                \* the hands of the frame processed last
  events,               \* what the last frame emitted
  sent,                 \* the MIDI messages the last step sent, in order
  emitted,              \* the (note, action) pairs that presses and releases
                        \* have sent during the recording that runs
  args,                 \* the arguments of the one call of a method that a
                        \* specification studies
  ret                   \* what that call has returned

vars == <<current_scale, prev_states, active_notes, active_keys,
          pinch_chord_playing, recording, recorded_notes, rec_age,
          echo_enabled, releases, echoes, playbacks, loop_pc, cleanup_notes,
          last_msg, last_op, actor, pre, frame, events, sent, emitted,
          args, ret>>

(* --------------------------- MIDI messages ----------------------------- *)

NoteOn(note, velocity) == [type |-> "on", note |-> note, velocity |-> velocity]

NoteOff(note, velocity) == [type |-> "off", note |-> note, velocity |-> velocity]

\* A split that shifts by eight bits.
PitchBendMut(bend_value) ==
  [type |-> "bend", status |-> 224,
   lsb |-> bend_value % 128, msb |-> (bend_value \div 256) % 128]

\* send_pitch_bend: lsb = v & 0x7F, msb = (v >> 7) & 0x7F, status 0xE0.
PitchBend(bend_value) ==
  [type |-> "bend", status |-> 224,
   lsb |-> bend_value % 128, msb |-> (bend_value \div 128) % 128]

\* The synthesizer's view of each note after the messages msgs.
RECURSIVE ApplyMsgs(_, _)
ApplyMsgs(lm, msgs) ==
  IF msgs = <<>> THEN lm
  ELSE LET m == Head(msgs)
       IN  ApplyMsgs(IF m.type \in {"on", "off"}
                       THEN [lm EXCEPT ![m.note] = m.type]
                       ELSE lm,
                     Tail(msgs))

NoEvents == [presses |-> <<>>, releases |-> <<>>, pinched |-> <<>>]

AllDown == [h \in Sides |-> [f \in FingerSet |-> 0]]

Min(a, b) == IF a < b THEN a ELSE b

\* A set of numbers in ascending order.
RECURSIVE SortedSeq(_)
SortedSeq(S) ==
  IF S = {} THEN <<>>
  ELSE LET m == CHOOSE x \in S : \A y \in S : x <= y
       IN  <<m>> \o SortedSeq(S \ {m})

(* ------------------------- hand observations --------------------------- *)

\* One hand of detector.findHands: its type, detector.fingersUp(hand) as a
\* 5-tuple, the length of lmList, the thumb-tip to index-tip distance, the
\* tip-to-base distance of its raised fingers, and bbox's x and w.
Hand(type, fingers, landmarks, pinch_dist, reach, x, w) ==
  [type |-> type, fingers |-> fingers, landmarks |-> landmarks,
   pinch_dist |-> pinch_dist, reach |-> reach, x |-> x, w |-> w]

\* hand_key = "left" if hand_type_detected == "Left" else "right"
HandKey(hand) == IF hand.type = "Left" THEN "left" ELSE "right"

(* ------------------------------ velocity ------------------------------- *)

\* int(20 + normalized ** 0.6 * 107 * velocity_multiplier), clipped to
\* [20, 127], at velocity_multiplier 1.0, for the tip-to-base distances
\* the frames use: the values the floating-point expression evaluates to.
VelocityCurve(distance) ==
  CASE distance <= 20  -> 20
    [] distance = 85   -> 90
    [] distance >= 150 -> 127

calculate_dynamic_velocity(landmarks, distance) ==
  IF landmarks = 0 \/ landmarks <= 20
    THEN DefaultVelocity
    ELSE VelocityCurve(distance)

\* int(v * 0.7) and int(v * 0.4) in floating point: 90 * 0.7 is
\* 62.99999999999999, every other velocity of 0..127 gives the exact floor.
EchoVelocity(v, tenths) ==
  IF v = 90 /\ tenths = 7 THEN 62 ELSE (v * tenths) \div 10

(* ------------------------- play_chord_enhanced ------------------------- *)

\* A press that never skips a note.
NoteIsActiveMut(note, an) == FALSE

\* "if note not in self.active_notes"
NoteIsActive(note, an) == note \in an

\* An echo of the chord's second note.
EchoesNoteMut(i) == echo_enabled /\ i = 2

\* "if self.echo_enabled and i == 0" (i counts from 0 in the source)
EchoesNote(i) == echo_enabled /\ i = 1

EchoTimer(note, velocity, delay) ==
  [note |-> note, velocity |-> velocity, delay |-> delay,
   elapsed |-> 0, pc |-> "send"]

RecordedEvent(note, velocity, action) ==
  [note |-> note, velocity |-> velocity, time |-> rec_age, action |-> action]

\* The frame's working state st: an (active_notes), sent, log
\* (recorded_notes), rel (releases), ech (echoes), pcp
\* (pinch_chord_playing), cur (current_finger_states), keys
\* (current_frame_active_keys_input), pinching
\* (pinching_in_current_frame), the events emitted so far and emit
\* (emitted).
PlayNote(st, note, velocity, i) ==
  IF NoteIsActive(note, st.an) THEN st
  ELSE [st EXCEPT
          !.sent = Append(@, NoteOn(note, velocity)),
          !.an = @ \cup {note},
          !.ech = IF EchoesNote(i)
                    THEN @ (+) SetToBag({EchoTimer(note, EchoVelocity(velocity, 7), EchoDelay1)})
                           (+) SetToBag({EchoTimer(note, EchoVelocity(velocity, 4), EchoDelay2)})
                    ELSE @,
          !.log = IF recording
                    THEN Append(@, RecordedEvent(note, velocity, "on"))
                    ELSE @,
          !.emit = IF recording
                     THEN Append(@, [note |-> note, action |-> "on"])
                     ELSE @]

RECURSIVE PlayNotes(_, _, _, _)
PlayNotes(st, chord_notes, velocity, i) ==
  IF i > Len(chord_notes) THEN st
  ELSE PlayNotes(PlayNote(st, chord_notes[i], velocity, i),
                 chord_notes, velocity, i + 1)

\* A press that cancels the releases that are pending.
play_chord_enhancedMut(st, chord_notes, velocity) ==
  [PlayNotes(st, chord_notes, velocity, 1) EXCEPT !.rel = EmptyBag]

play_chord_enhanced(st, chord_notes, velocity) ==
  PlayNotes(st, chord_notes, velocity, 1)

(* ------------------------- stop_chord_enhanced ------------------------- *)

\* A stop_after_delay thread: the chord it was started for, the time slept
\* so far, the index of the note it is at and its position in the loop
\* body: "check" (if note in self.active_notes), "off" (note_off),
\* "discard" (with "if self.recording"), "append".
\* A release that would return only when the sustain has expired.
ReleaseThreadMut(chord_notes) ==
  [chord |-> chord_notes, elapsed |-> sustain_time, i |-> 1, pc |-> "check"]

ReleaseThread(chord_notes) ==
  [chord |-> chord_notes, elapsed |-> 0, i |-> 1, pc |-> "check"]

\* Starts the thread and returns: nothing is sent here.
stop_chord_enhanced(st, chord_notes) ==
  [st EXCEPT !.rel = @ (+) SetToBag({ReleaseThread(chord_notes)})]

(* ------------------------- handle_pinch_gesture ------------------------ *)

\* A pinch test that forgets the thumb and the index finger.
is_pinchingMut(hand) ==
  /\ ~(hand.landmarks = 0 \/ hand.landmarks < LandmarkCount)
  /\ hand.pinch_dist < pinch_threshold

is_pinching(hand) ==
  /\ ~(hand.landmarks = 0 \/ hand.landmarks < LandmarkCount)
  /\ hand.pinch_dist < pinch_threshold
  /\ hand.fingers[1] = 1
  /\ hand.fingers[2] = 1

\* A bend value without the clip.
pitch_bend_valueMut(hand) ==
  ((hand.x + hand.w \div 2) * BendMax) \div screen_width

\* int(np.clip(center_x / screen_width, 0, 1) * 16383), center_x = x + w // 2
pitch_bend_value(hand) ==
  LET center_x == hand.x + hand.w \div 2
  IN  IF center_x <= 0 THEN 0
      ELSE IF center_x >= screen_width THEN BendMax
      ELSE (center_x * BendMax) \div screen_width

\* "if note not in self.active_notes", for a note of the pinch chord.
PinchNoteIsActive(note, an) == note \in an

PinchNote(st, note) ==
  IF PinchNoteIsActive(note, st.an) THEN st
  ELSE [st EXCEPT
          !.sent = Append(@, NoteOn(note, PinchVelocity)),
          !.an = @ \cup {note},
          !.log = IF recording
                    THEN Append(@, RecordedEvent(note, PinchVelocity, "on"))
                    ELSE @]

RECURSIVE PinchNotes(_, _)
PinchNotes(st, i) ==
  IF i > Len(pinch_chord_notes) THEN st
  ELSE PinchNotes(PinchNote(st, pinch_chord_notes[i]), i + 1)

\* A pinch that never starts its chord.
StartsPinchChordMut(pcp) == FALSE

\* "if not self.pinch_chord_playing"
StartsPinchChord(pcp) == ~pcp

\* A pinching hand whose fingers keep the states of the frame before.
handle_pinch_gestureMut(st, hand) ==
  LET st1 == IF StartsPinchChord(st.pcp)
               THEN [PinchNotes(st, 1) EXCEPT !.pcp = TRUE]
               ELSE st
  IN  [st1 EXCEPT !.sent = Append(@, PitchBend(pitch_bend_value(hand))),
                  !.pinched = Append(@, HandKey(hand)),
                  !.cur[HandKey(hand)] = prev_states[HandKey(hand)]]

\* The effect of a pinching hand (the branch "if is_pinching").
handle_pinch_gesture(st, hand) ==
  LET st1 == IF StartsPinchChord(st.pcp)
               THEN [PinchNotes(st, 1) EXCEPT !.pcp = TRUE]
               ELSE st
  IN  [st1 EXCEPT !.sent = Append(@, PitchBend(pitch_bend_value(hand))),
                  !.pinched = Append(@, HandKey(hand))]

(* ---------------------------- process_hands ---------------------------- *)

\* A press for every frame in which the finger is up.
RisingEdgeMut(cur, prev) == cur = 1

\* "current == 1 and prev == 0": the finger was raised.
RisingEdge(cur, prev) == cur = 1 /\ prev = 0

\* "current == 0 and prev == 1": the finger was lowered.
FallingEdge(cur, prev) == cur = 0 /\ prev = 1

\* "if current_finger_states[hand_key][finger_name] == 1": the key is shown.
KeyShown(cur) == cur = 1

\* The body of "for i, finger_name in enumerate(finger_names)" for finger i.
ProcessFinger(st, hand, i) ==
  LET hk == HandKey(hand)
      f == finger_names[i]
      chord == scales[current_scale][hk][f]
      cur == hand.fingers[i]
      prev == prev_states[hk][f]
      st1 == [st EXCEPT !.cur[hk][f] = cur]
      st2 == IF RisingEdge(cur, prev)
               THEN LET velocity == calculate_dynamic_velocity(hand.landmarks, hand.reach)
                    IN  [play_chord_enhanced(st1, chord, velocity) EXCEPT
                           !.keys = @ \cup {<<hk, f>>},
                           !.presses = Append(@, [side |-> hk, finger |-> f,
                                                  chord |-> chord,
                                                  velocity |-> velocity])]
             ELSE IF FallingEdge(cur, prev)
               THEN [stop_chord_enhanced(st1, chord) EXCEPT
                       !.releases = Append(@, [side |-> hk, finger |-> f,
                                               chord |-> chord])]
             ELSE st1
  IN  IF KeyShown(cur) THEN [st2 EXCEPT !.keys = @ \cup {<<hk, f>>}] ELSE st2

RECURSIVE ProcessFingers(_, _, _)
ProcessFingers(st, hand, i) ==
  IF i > Len(finger_names) THEN st
  ELSE ProcessFingers(ProcessFinger(st, hand, i), hand, i + 1)

\* A loop body without the "continue": the fingers of a pinching hand are
\* processed too.
ProcessHandMut(st, hand) ==
  IF is_pinching(hand)
    THEN ProcessFingers([handle_pinch_gesture(st, hand) EXCEPT !.pinching = TRUE],
                        hand, 1)
    ELSE ProcessFingers(st, hand, 1)

\* The body of "for hand in hands": a pinching hand is handled by
\* handle_pinch_gesture and skipped ("continue").
ProcessHand(st, hand) ==
  IF is_pinching(hand)
    THEN [handle_pinch_gesture(st, hand) EXCEPT !.pinching = TRUE]
    ELSE ProcessFingers(st, hand, 1)

RECURSIVE ProcessHandList(_, _)
ProcessHandList(st, hands) ==
  IF hands = <<>> THEN st
  ELSE ProcessHandList(ProcessHand(st, Head(hands)), Tail(hands))

\* "if note in self.active_notes", when the pinch chord is stopped.
PinchNoteStillActive(note, an) == note \in an

\* A pinch stop that records its note-offs.
RECURSIVE PinchOffMut(_, _)
PinchOffMut(st, i) ==
  IF i > Len(pinch_chord_notes) THEN st
  ELSE LET note == pinch_chord_notes[i]
       IN  PinchOffMut(IF PinchNoteStillActive(note, st.an)
                         THEN [st EXCEPT !.sent = Append(@, NoteOff(note, OffVelocity)),
                                         !.an = @ \ {note},
                                         !.log = IF recording
                                                   THEN Append(@, RecordedEvent(note, 0, "off"))
                                                   ELSE @]
                         ELSE st,
                       i + 1)

RECURSIVE PinchOff(_, _)
PinchOff(st, i) ==
  IF i > Len(pinch_chord_notes) THEN st
  ELSE LET note == pinch_chord_notes[i]
       IN  PinchOff(IF PinchNoteStillActive(note, st.an)
                      THEN [st EXCEPT !.sent = Append(@, NoteOff(note, OffVelocity)),
                                      !.an = @ \ {note}]
                      ELSE st,
                    i + 1)

\* "if not pinching_in_current_frame and self.pinch_chord_playing"
\* A pinch chord that is stopped only when it does not play.
PinchStopsMut(pinching, pcp) == ~pinching /\ ~pcp

PinchStops(pinching, pcp) == ~pinching /\ pcp

\* The end of process_hands: the pinch chord is stopped when no hand pinched.
StopPinch(st) ==
  IF PinchStops(st.pinching, st.pcp)
    THEN [PinchOff(st, 1) EXCEPT !.pcp = FALSE,
                                 !.sent = Append(@, PitchBend(BendCenter))]
    ELSE st

\* A frame that starts from the keys shown so far.
FrameStartMut ==
  [an |-> active_notes, sent |-> <<>>, log |-> recorded_notes,
   rel |-> releases, ech |-> echoes, pcp |-> pinch_chord_playing,
   cur |-> AllDown, keys |-> active_keys, pinching |-> FALSE,
   presses |-> <<>>, releases |-> <<>>, pinched |-> <<>>,
   emit |-> emitted]

\* The locals of process_hands before "for hand in hands", with the fields
\* of the instance the loop changes.
FrameStart ==
  [an |-> active_notes, sent |-> <<>>, log |-> recorded_notes,
   rel |-> releases, ech |-> echoes, pcp |-> pinch_chord_playing,
   cur |-> AllDown, keys |-> {}, pinching |-> FALSE,
   presses |-> <<>>, releases |-> <<>>, pinched |-> <<>>,
   emit |-> emitted]

process_hands(hands) == StopPinch(ProcessHandList(FrameStart, hands))

(* ------------------------------- frames -------------------------------- *)

\* The hands of the frames.  A left hand: no finger up and the tips apart;
\* thumb and index up and the tips close (a pinch).
LeftHands ==
  { Hand("Left", <<0,0,0,0,0>>, LandmarkCount, 60, 85, 200, 100),
    Hand("Left", <<1,1,0,0,0>>, LandmarkCount, 10, 85, 200, 100) }

\* A right hand: the thumb up alone and the tips close (no pinch, the
\* index finger is down); thumb and index up and the tips just under
\* pinch_threshold apart (a pinch); the little finger up, whose D_Major
\* chord <<81, 85, 88>> shares 88 with the pinch chord.
RightHands ==
  { Hand("Right", <<1,0,0,0,0>>, LandmarkCount, 10, 85, 590, 100),
    Hand("Right", <<1,1,0,0,0>>, LandmarkCount, 29, 85, 590, 100),
    Hand("Right", <<0,0,0,0,1>>, LandmarkCount, 60, 85, 590, 100) }

\* A frame with hands: one hand, or a left and a right hand, which
\* results.multi_hand_landmarks lists in either order (the right hand
\* first: its little finger up and the left hand pinching).
HandFrames ==
  { <<h>> : h \in LeftHands \cup RightHands }
  \cup { <<l, r>> : l \in LeftHands, r \in RightHands }
  \cup { << Hand("Right", <<0,0,0,0,1>>, LandmarkCount, 60, 85, 590, 100),
            Hand("Left", <<1,1,0,0,0>>, LandmarkCount, 10, 85, 200, 100) >> }

\* The frames of a left hand that raises and lowers its thumb.
ThumbFrames ==
  { <<Hand("Left", v, LandmarkCount, 60, 85, 200, 100)>> :
      v \in { <<0,0,0,0,0>>, <<1,0,0,0,0>> } }

(* ------------------------------- actions ------------------------------- *)

\* What the last step found: active_notes, prev_states,
\* pinch_chord_playing, recorded_notes, the synthesizer's view, the
\* pending echo timers, the playback threads, active_keys, emitted and
\* current_scale.
Before ==
  [an |-> active_notes, prev |-> prev_states, pcp |-> pinch_chord_playing,
   log |-> recorded_notes, msg |-> last_msg, ech |-> echoes,
   pb |-> playbacks, keys |-> active_keys, emit |-> emitted,
   scale |-> current_scale]

NoActor == [chord |-> <<>>, elapsed |-> 0, i |-> 0, pc |-> "none"]

\* No call under study has returned, and one that has.
NoReturn == [done |-> FALSE]

Returned(value) == [done |-> TRUE, value |-> value]

\* The state after __init__.
Constructed ==
  /\ current_scale = "D_Major"
  /\ prev_states = AllDown
  /\ active_notes = {}
  /\ active_keys = {}
  /\ pinch_chord_playing = FALSE
  /\ recording = FALSE
  /\ recorded_notes = <<>>
  /\ rec_age = -1
  /\ echo_enabled = FALSE
  /\ releases = EmptyBag
  /\ echoes = EmptyBag
  /\ playbacks = EmptyBag
  /\ emitted = <<>>
  /\ loop_pc = "frame"
  /\ cleanup_notes = {}
  /\ last_msg = [n \in AllNotes |-> "none"]
  /\ last_op = "init"
  /\ actor = NoActor
  /\ pre = Before
  /\ frame = <<>>
  /\ events = NoEvents
  /\ sent = <<>>

Init ==
  /\ Constructed
  /\ args = <<>>
  /\ ret = NoReturn

\* run, "if hands": process_hands(hands, img).
FrameHands(hands, max_threads) ==
  LET st == process_hands(hands)
  IN  /\ loop_pc = "frame"
      /\ BagCardinality(st.rel) <= max_threads
      /\ BagCardinality(st.ech) <= MaxEchoes
      /\ Len(st.log) <= MaxLog
      /\ active_keys' = st.keys
      /\ active_notes' = st.an
      /\ pinch_chord_playing' = st.pcp
      /\ prev_states' = st.cur
      /\ recorded_notes' = st.log
      /\ releases' = st.rel
      /\ echoes' = st.ech
      /\ sent' = st.sent
      /\ last_msg' = ApplyMsgs(last_msg, st.sent)
      /\ events' = [presses |-> st.presses, releases |-> st.releases,
                    pinched |-> st.pinched]
      /\ frame' = hands
      /\ last_op' = "hands"
      /\ actor' = NoActor
      /\ pre' = Before
      /\ loop_pc' = "key"
      /\ emitted' = st.emit
      /\ UNCHANGED <<cleanup_notes, args, ret>>
      /\ UNCHANGED <<current_scale, recording, rec_age, echo_enabled,
                     playbacks>>

\* A panic-stop that forgets the notes of the pinch chord.
PanicNotesMut(an) == an \ SeqRange(pinch_chord_notes)

\* The notes the panic-stop turns off: "for note in list(self.active_notes)".
PanicNotes(an) == an

\* run, the else branch: no hand in the frame.
FrameNoHands ==
  LET offs == [i \in 1..Cardinality(PanicNotes(active_notes)) |->
                 NoteOff(SortedSeq(PanicNotes(active_notes))[i], OffVelocity)]
      msgs == IF pinch_chord_playing
                THEN Append(offs, PitchBend(BendCenter))
                ELSE offs
  IN  /\ loop_pc = "frame"
      /\ UNCHANGED <<cleanup_notes, args, ret>>
      /\ prev_states' = AllDown
      /\ active_keys' = {}
      /\ active_notes' = active_notes \ PanicNotes(active_notes)
      /\ pinch_chord_playing' = FALSE
      /\ sent' = msgs
      /\ last_msg' = ApplyMsgs(last_msg, msgs)
      /\ events' = NoEvents
      /\ frame' = <<>>
      /\ last_op' = "no_hands"
      /\ actor' = NoActor
      /\ pre' = Before
      /\ loop_pc' = "key"
      /\ UNCHANGED <<current_scale, recording, recorded_notes, rec_age,
                     echo_enabled, releases, echoes, playbacks, emitted>>

\* What every key handler leaves alone, and the history it writes.
KeyDone(name) ==
  /\ UNCHANGED <<cleanup_notes, args, ret>>
  /\ loop_pc = "key"
  /\ loop_pc' = "frame"
  /\ last_op' = name
  /\ actor' = NoActor
  /\ pre' = Before
  /\ frame' = <<>>
  /\ events' = NoEvents
  /\ sent' = <<>>
  /\ UNCHANGED <<last_msg, releases, echoes>>

\* cv2.waitKey returns 255 (no key), or a key with no handler.
KeyNone ==
  /\ KeyDone("key_none")
  /\ UNCHANGED <<current_scale, prev_states, active_notes, active_keys,
                 pinch_chord_playing, recording, recorded_notes, rec_age,
                 echo_enabled, playbacks, emitted>>

ScaleIndex(name) == CHOOSE i \in 1..Len(scale_names) : scale_names[i] = name

\* A successor without the "%": the last scale stays.
NextScaleMut(name) ==
  scale_names[Min(ScaleIndex(name) + 1, Len(scale_names))]

\* scales[(current_idx + 1) % len(scales)], with indices from 1.
NextScale(name) == scale_names[(ScaleIndex(name) % Len(scale_names)) + 1]

\* Key 's': the scale, prev_states and active_keys; nothing is sent and
\* active_notes is not touched.
cycle_scale ==
  /\ KeyDone("cycle_scale")
  /\ current_scale' = NextScale(current_scale)
  /\ prev_states' = AllDown
  /\ active_keys' = {}
  /\ UNCHANGED <<active_notes, pinch_chord_playing, recording,
                 recorded_notes, rec_age, echo_enabled, playbacks, emitted>>

\* "self.recorded_notes = []" binds the name to a new list: a playback
\* thread that iterates over the old list keeps it, as it is now.
Rebound(t) ==
  IF t.live THEN [t EXCEPT !.live = FALSE, !.list = recorded_notes] ELSE t

\* Key 'r'.
toggle_recording ==
  /\ KeyDone("toggle_recording")
  /\ IF ~recording
       THEN /\ recording' = TRUE
            /\ recorded_notes' = <<>>
            /\ rec_age' = 0
            /\ playbacks' = BagOfAll(Rebound, playbacks)
            /\ emitted' = <<>>
       ELSE /\ recording' = FALSE
            /\ emitted' = <<>>
            /\ UNCHANGED <<recorded_notes, rec_age, playbacks>>
  /\ UNCHANGED <<current_scale, prev_states, active_notes, active_keys,
                 pinch_chord_playing, echo_enabled>>

\* What a statement of toggle_recording leaves alone, and the history it
\* writes.
ToggleDone(name) ==
  /\ UNCHANGED <<cleanup_notes, args, ret>>
  /\ last_op' = name
  /\ actor' = NoActor
  /\ pre' = Before
  /\ frame' = <<>>
  /\ events' = NoEvents
  /\ sent' = <<>>
  /\ UNCHANGED <<current_scale, prev_states, active_notes, active_keys,
                 pinch_chord_playing, echo_enabled, last_msg, releases,
                 echoes>>

\* Key 'r', statement by statement, for the threads that run between the
\* statements.  "if not self.recording: self.recording = True", or
\* "else: self.recording = False".
ToggleFlag ==
  /\ loop_pc = "key"
  /\ recording' = ~recording
  /\ loop_pc' = IF ~recording THEN "toggle_clear" ELSE "frame"
  /\ emitted' = <<>>
  /\ ToggleDone("toggle_flag")
  /\ UNCHANGED <<recorded_notes, rec_age, playbacks>>

\* self.recorded_notes = []
ToggleClear ==
  /\ loop_pc = "toggle_clear"
  /\ recorded_notes' = <<>>
  /\ loop_pc' = "toggle_time"
  /\ playbacks' = BagOfAll(Rebound, playbacks)
  /\ ToggleDone("toggle_clear")
  /\ UNCHANGED <<recording, rec_age, emitted>>

\* self.recording_start_time = time.time()
ToggleTime ==
  /\ loop_pc = "toggle_time"
  /\ rec_age' = 0
  /\ loop_pc' = "frame"
  /\ ToggleDone("toggle_time")
  /\ UNCHANGED <<recording, recorded_notes, playbacks, emitted>>

\* Key 'e'.
toggle_echo ==
  /\ KeyDone("toggle_echo")
  /\ echo_enabled' = ~echo_enabled
  /\ UNCHANGED <<current_scale, prev_states, active_notes, active_keys,
                 pinch_chord_playing, recording, recorded_notes, rec_age,
                 playbacks, emitted>>

(* ------------------------------- time ---------------------------------- *)

\* TickMs milliseconds pass: every sleeping thread has slept that much
\* longer (what it sleeps past its delay does not matter), and time.time()
\* moves on for the recording.
Slept(t, limit) == [t EXCEPT !.elapsed = Min(@ + TickMs, limit)]

SleptRelease(r) == Slept(r, sustain_time)

SleptEcho(e) == Slept(e, e.delay)

\* The list a playback thread iterates over.
PlaybackList(t) == IF t.live THEN recorded_notes ELSE t.list

\* "while time.time() < target_time": the thread waits for its next event.
PlaybackWaits(t) ==
  /\ t.pc = "events"
  /\ t.k <= Len(PlaybackList(t))
  /\ t.elapsed < PlaybackList(t)[t.k].time

SleptPlayback(t) == Slept(t, MaxClock)

Tick ==
  /\ \/ \E r \in BagToSet(releases) : r.elapsed < sustain_time
     \/ \E e \in BagToSet(echoes) : e.elapsed < e.delay
     \/ (rec_age >= 0 /\ rec_age < MaxClock)
     \/ \E t \in BagToSet(playbacks) : PlaybackWaits(t)
  /\ releases' = BagOfAll(SleptRelease, releases)
  /\ playbacks' = BagOfAll(SleptPlayback, playbacks)
  /\ echoes' = BagOfAll(SleptEcho, echoes)
  /\ rec_age' = IF rec_age >= 0 THEN Min(rec_age + TickMs, MaxClock) ELSE rec_age
  /\ last_op' = "tick"
  /\ UNCHANGED <<cleanup_notes, args, ret>>
  /\ actor' = NoActor
  /\ pre' = Before
  /\ frame' = <<>>
  /\ events' = NoEvents
  /\ sent' = <<>>
  /\ UNCHANGED <<current_scale, prev_states, active_notes, active_keys,
                 pinch_chord_playing, recording, recorded_notes,
                 echo_enabled, loop_pc, last_msg, emitted>>

(* ---------------------- stop_after_delay threads ----------------------- *)

\* A thread that does not sleep.
SleepDoneMut(r) == TRUE

\* time.sleep(self.sustain_time) has returned.
SleepDone(r) == r.elapsed >= sustain_time

\* A thread that turns its notes off without looking.
StillActiveMut(note, an) == TRUE

\* A thread that leaves alone the notes of a finger that is up.
StillActiveHeldMut(note, an) ==
  /\ note \in an
  /\ ~\E key \in active_keys :
        note \in SeqRange(scales[current_scale][key[1]][key[2]])

\* "if note in self.active_notes", in the thread.
StillActive(note, an) == note \in an

\* "if self.recording", in the thread.
ThreadRecords(rec) == rec

\* The thread after the loop body for its note: the next note, or the end.
AfterNote(r) ==
  IF r.i < Len(r.chord)
    THEN SetToBag({[r EXCEPT !.i = @ + 1, !.pc = "check"]})
    ELSE EmptyBag

\* What a thread step leaves alone, and the history it writes.
ThreadDone(name, t) ==
  /\ UNCHANGED <<cleanup_notes, args, ret>>
  /\ last_op' = name
  /\ actor' = t
  /\ pre' = Before
  /\ frame' = <<>>
  /\ events' = NoEvents
  /\ UNCHANGED <<current_scale, prev_states, active_keys,
                 pinch_chord_playing, recording, rec_age, echo_enabled,
                 loop_pc, playbacks>>

ReleaseCheck(r) ==
  /\ r.pc = "check"
  /\ SleepDone(r)
  /\ releases' = (releases (-) SetToBag({r})) (+)
                   (IF StillActive(r.chord[r.i], active_notes)
                      THEN SetToBag({[r EXCEPT !.pc = "off"]})
                      ELSE AfterNote(r))
  /\ sent' = <<>>
  /\ ThreadDone("release_check", r)
  /\ UNCHANGED <<active_notes, recorded_notes, echoes, last_msg, emitted>>

ReleaseOff(r) ==
  /\ r.pc = "off"
  /\ releases' = (releases (-) SetToBag({r})) (+)
                   SetToBag({[r EXCEPT !.pc = "discard"]})
  /\ sent' = <<NoteOff(r.chord[r.i], OffVelocity)>>
  /\ last_msg' = ApplyMsgs(last_msg, sent')
  /\ ThreadDone("release_off", r)
  /\ emitted' = IF recording
                  THEN Append(emitted, [note |-> r.chord[r.i], action |-> "off"])
                  ELSE emitted
  /\ UNCHANGED <<active_notes, recorded_notes, echoes>>

\* self.active_notes.discard(note), then "if self.recording": no other
\* thread's step between the two can tell them apart, they are one step.
ReleaseDiscard(r) ==
  /\ r.pc = "discard"
  /\ active_notes' = active_notes \ {r.chord[r.i]}
  /\ releases' = (releases (-) SetToBag({r})) (+)
                   (IF ThreadRecords(recording)
                      THEN SetToBag({[r EXCEPT !.pc = "append"]})
                      ELSE AfterNote(r))
  /\ sent' = <<>>
  /\ ThreadDone("release_discard", r)
  /\ UNCHANGED <<recorded_notes, echoes, last_msg, emitted>>

\* time.time() - self.recording_start_time is a number.
StartTimeSet(age) == age >= 0

ReleaseAppend(r) ==
  /\ r.pc = "append"
  /\ StartTimeSet(rec_age)
  /\ Len(recorded_notes) < MaxLog
  /\ recorded_notes' = Append(recorded_notes, RecordedEvent(r.chord[r.i], 0, "off"))
  /\ releases' = (releases (-) SetToBag({r})) (+) AfterNote(r)
  /\ sent' = <<>>
  /\ ThreadDone("release_append", r)
  /\ UNCHANGED <<active_notes, echoes, last_msg, emitted>>

\* The append while self.recording_start_time is None: the subtraction
\* raises TypeError and the thread ends, the rest of its chord untouched.
ReleaseAppendFails(r) ==
  /\ r.pc = "append"
  /\ ~StartTimeSet(rec_age)
  /\ releases' = releases (-) SetToBag({r})
  /\ sent' = <<>>
  /\ ThreadDone("release_error", r)
  /\ UNCHANGED <<active_notes, recorded_notes, echoes, last_msg, emitted>>

(* ----------------------------- echo timers ----------------------------- *)

\* The Timer's interval has passed.
EchoDue(e) == e.elapsed >= e.delay

\* A Timer that re-sends its note only while the note is active.
EchoSendMut(e) ==
  /\ e.pc = "send"
  /\ EchoDue(e)
  /\ echoes' = (echoes (-) SetToBag({e})) (+) SetToBag({[e EXCEPT !.pc = "add"]})
  /\ sent' = IF e.note \in active_notes
               THEN <<NoteOn(e.note, e.velocity)>> ELSE <<>>
  /\ last_msg' = ApplyMsgs(last_msg, sent')
  /\ ThreadDone("echo_send", e)
  /\ UNCHANGED <<active_notes, recorded_notes, releases, emitted>>

\* self.play_single_note(n, int(v * factor))
EchoSend(e) ==
  /\ e.pc = "send"
  /\ EchoDue(e)
  /\ echoes' = (echoes (-) SetToBag({e})) (+) SetToBag({[e EXCEPT !.pc = "add"]})
  /\ sent' = <<NoteOn(e.note, e.velocity)>>
  /\ last_msg' = ApplyMsgs(last_msg, sent')
  /\ ThreadDone("echo_send", e)
  /\ UNCHANGED <<active_notes, recorded_notes, releases, emitted>>

\* self.active_notes.add(n)
EchoAdd(e) ==
  /\ e.pc = "add"
  /\ echoes' = echoes (-) SetToBag({e})
  /\ active_notes' = active_notes \cup {e.note}
  /\ sent' = <<>>
  /\ ThreadDone("echo_add", e)
  /\ UNCHANGED <<recorded_notes, releases, last_msg, emitted>>

(* ------------------------------ playback ------------------------------- *)

\* A playback_thread_func thread: its position ("flush", then "events"),
\* the index of the event it is at, the time since start_playback_time, and
\* the list it iterates over: self.recorded_notes itself (live), or the
\* list that was bound to that name when the thread started.
PlaybackThread ==
  [pc |-> "flush", k |-> 1, elapsed |-> 0, live |-> TRUE, list |-> <<>>]

\* "if not self.recorded_notes"
NothingRecorded(log) == log = <<>>

\* "hasattr(self, '_playback_thread') and self._playback_thread.is_alive()":
\* the thread started last is the only one there can be.
PlaybackAliveMut(pbs) == FALSE

PlaybackAlive(pbs) == pbs # EmptyBag

\* Key 'p'.
playback_recording ==
  /\ KeyDone("playback_recording")
  /\ playbacks' = IF NothingRecorded(recorded_notes) \/ PlaybackAlive(playbacks)
                    THEN playbacks
                    ELSE playbacks (+) SetToBag({PlaybackThread})
  /\ UNCHANGED <<current_scale, prev_states, active_notes, active_keys,
                 pinch_chord_playing, recording, recorded_notes, rec_age,
                 echo_enabled, emitted>>

\* What a step of the playback thread leaves alone, and the history it
\* writes.
PlaybackDone(name, t) ==
  /\ UNCHANGED <<cleanup_notes, args, ret>>
  /\ last_op' = name
  /\ actor' = t
  /\ pre' = Before
  /\ frame' = <<>>
  /\ events' = NoEvents
  /\ last_msg' = ApplyMsgs(last_msg, sent')
  /\ UNCHANGED <<current_scale, prev_states, pinch_chord_playing, recording,
                 recorded_notes, rec_age, echo_enabled, releases, echoes,
                 loop_pc, emitted>>

\* "for note in list(self.active_notes)": note_off and discard, each note.
FlushOffsMut(an) == <<>>

FlushOffs(an) ==
  [i \in 1..Cardinality(an) |-> NoteOff(SortedSeq(an)[i], OffVelocity)]

\* The flush before the first event, and self.active_keys.clear().
PlaybackFlush(t) ==
  /\ t.pc = "flush"
  /\ sent' = FlushOffs(active_notes)
  /\ active_notes' = {}
  /\ active_keys' = {}
  /\ playbacks' = (playbacks (-) SetToBag({t})) (+)
                    SetToBag({[t EXCEPT !.pc = "events"]})
  /\ PlaybackDone("playback_flush", t)

\* The message that replays an event.
Replayed(event) ==
  IF event.action = "on"
    THEN NoteOn(event.note, event.velocity)
    ELSE NoteOff(event.note, event.velocity)

\* time.time() has reached start_playback_time + event['time'].
EventDue(t, event) == t.elapsed >= event.time

\* The body of "for event in self.recorded_notes", after its wait.
PlaybackEvent(t) ==
  /\ t.pc = "events"
  /\ t.k <= Len(PlaybackList(t))
  /\ LET event == PlaybackList(t)[t.k]
     IN  /\ EventDue(t, event)
         /\ sent' = <<Replayed(event)>>
         /\ active_notes' = IF event.action = "on"
                              THEN active_notes \cup {event.note}
                              ELSE active_notes \ {event.note}
  /\ playbacks' = (playbacks (-) SetToBag({t})) (+)
                    SetToBag({[t EXCEPT !.k = @ + 1]})
  /\ PlaybackDone("playback_event", t)
  /\ UNCHANGED active_keys

\* The list is exhausted: the flush after the last event, and the thread
\* ends.
PlaybackEnd(t) ==
  /\ t.pc = "events"
  /\ t.k > Len(PlaybackList(t))
  /\ sent' = FlushOffs(active_notes)
  /\ active_notes' = {}
  /\ playbacks' = playbacks (-) SetToBag({t})
  /\ PlaybackDone("playback_end", t)
  /\ UNCHANGED active_keys

\* The steps of the playback thread.
PlaybackStep ==
  \/ \E t \in BagToSet(playbacks) : PlaybackFlush(t)
  \/ \E t \in BagToSet(playbacks) : PlaybackEvent(t)
  \/ \E t \in BagToSet(playbacks) : PlaybackEnd(t)

(* ---------------------------- specification ---------------------------- *)

\* An iteration that goes on with the frame it could not read.
SkipsFrameMut(success) == FALSE

\* "if not success: ... continue"
SkipsFrame(success) == ~success

\* run: cap.read() fails, "continue" (no key is read in that iteration);
\* past the "continue" lies the rest of the iteration, with no hand found.
FrameReadFails ==
  /\ loop_pc = "frame"
  /\ last_op /= "read_failed"
  /\ last_op' = "read_failed"
  /\ UNCHANGED <<cleanup_notes, args, ret>>
  /\ actor' = NoActor
  /\ pre' = Before
  /\ frame' = <<>>
  /\ events' = NoEvents
  /\ sent' = <<>>
  /\ IF SkipsFrame(FALSE)
       THEN UNCHANGED <<prev_states, active_keys, loop_pc>>
       ELSE /\ prev_states' = AllDown
            /\ active_keys' = {}
            /\ loop_pc' = "key"
  /\ UNCHANGED <<current_scale, active_notes, pinch_chord_playing, recording,
                 recorded_notes, rec_age, echo_enabled, releases, echoes,
                 playbacks, last_msg, emitted>>

\* The steps of the stop_after_delay threads while nothing is recorded.
ThreadStep ==
  \/ \E r \in BagToSet(releases) : ReleaseCheck(r)
  \/ \E r \in BagToSet(releases) : ReleaseOff(r)
  \/ \E r \in BagToSet(releases) : ReleaseDiscard(r)

\* The gesture machine: two hands, the pinch, hand loss.
Next ==
  \/ \E hands \in HandFrames : FrameHands(hands, MaxReleases)
  \/ FrameNoHands
  \/ FrameReadFails
  \/ KeyNone
  \/ Tick
  \/ ThreadStep

Spec == Init /\ [][Next]_vars

\* Scale changes under a thumb that is raised and lowered.
NextScaleChange ==
  \/ \E hands \in ThumbFrames : FrameHands(hands, MaxReleases)
  \/ FrameNoHands
  \/ KeyNone
  \/ cycle_scale
  \/ Tick
  \/ ThreadStep

SpecScale == Init /\ [][NextScaleChange]_vars

\* Releases racing each other and the panic-stop.
NextRelease ==
  \/ \E hands \in ThumbFrames : FrameHands(hands, MaxRacing)
  \/ FrameNoHands
  \/ KeyNone
  \/ Tick
  \/ ThreadStep

SpecRelease == Init /\ [][NextRelease]_vars

\* A release and a recording that is started and stopped.
NextRecord ==
  \/ \E hands \in ThumbFrames : FrameHands(hands, MaxReleases)
  \/ FrameNoHands
  \/ KeyNone
  \/ toggle_recording
  \/ Tick
  \/ ThreadStep
  \/ \E r \in BagToSet(releases) : ReleaseAppend(r)

SpecRecord == Init /\ [][NextRecord]_vars

(* ------------------------------ properties ----------------------------- *)

Idx(msgs) == 1..Len(msgs)

\* msgs holds a note-off for note n.
HasOff(msgs, n) ==
  \E i \in Idx(msgs) : msgs[i].type = "off" /\ msgs[i].note = n

\* msgs holds a note-on for note n.
HasOn(msgs, n) ==
  \E i \in Idx(msgs) : msgs[i].type = "on" /\ msgs[i].note = n

\* msgs holds a note-on for note n with the velocity of the pinch chord.
HasPinchOn(msgs, n) ==
  \E i \in Idx(msgs) :
    msgs[i].type = "on" /\ msgs[i].note = n /\ msgs[i].velocity = PinchVelocity

\* msgs holds a note-on for note n with a velocity other than the pinch's:
\* a press has started the note.
HasPressOn(msgs, n) ==
  \E i \in Idx(msgs) :
    msgs[i].type = "on" /\ msgs[i].note = n /\ msgs[i].velocity # PinchVelocity

\* The note the acting stop_after_delay thread is at.
ActorNote == actor.chord[actor.i]

\* C1: in a frame without hands the main loop sends, in that frame, a
\* note-off for every note that was in active_notes, and active_notes is
\* empty when the frame is done, whatever stop_after_delay threads are still
\* asleep.
C1_PanicStopEmptiesActiveNotes ==
  last_op = "no_hands" =>
    /\ active_notes = {}
    /\ \A n \in pre.an : HasOff(sent, n)
    /\ \A i \in Idx(sent) : sent[i].type = "off" => sent[i].note \in pre.an

\* A frame without hands that found three or more notes active, one of them
\* the first note of a thread that is still asleep.
C1_Witness ==
  /\ last_op = "no_hands"
  /\ Cardinality(pre.an) >= 3
  /\ \E r \in BagToSet(releases) :
       r.elapsed < sustain_time /\ r.chord[1] \in pre.an

\* C2: a frame with hands sends no note-on for a note that was in
\* active_notes when the frame began, and no two note-ons for one note: a
\* press sends note-on only for the chord notes that are not active.
C2_PressSkipsActiveNotes ==
  last_op = "hands" =>
    \A i \in Idx(sent) :
      sent[i].type = "on" =>
        /\ sent[i].note \notin pre.an
        /\ \A j \in 1..(i - 1) :
             ~(sent[j].type = "on" /\ sent[j].note = sent[i].note)

\* A press of a chord of which one note was active (and got no note-on)
\* and another was not (and got one).
C2_Witness ==
  /\ last_op = "hands"
  /\ \E k \in Idx(events.presses) :
       /\ \E n \in SeqRange(events.presses[k].chord) :
            n \in pre.an /\ ~HasOn(sent, n)
       /\ \E n \in SeqRange(events.presses[k].chord) :
            n \notin pre.an /\ HasOn(sent, n)

\* C3: the frame that schedules a release starts a thread that has slept
\* nothing, and sends no note-off for it (the only note-offs of a frame
\* with hands are those of a pinch chord that stops); a thread acts only
\* after it has slept sustain_time; when it finds its note in active_notes
\* it goes on to send the note-off for it and then removes it.
C3_ReleaseWaitsForSustain ==
  /\ (last_op = "hands" /\ events.releases # <<>>) =>
       /\ (pre.pcp /\ events.pinched = <<>>) \/
            \A i \in Idx(sent) : sent[i].type # "off"
       /\ \A k \in Idx(events.releases) :
            ReleaseThread(events.releases[k].chord) \in BagToSet(releases)
  /\ \A r \in BagToSet(releases) :
       (r.i > 1 \/ r.pc # "check") => r.elapsed >= sustain_time
  /\ last_op \in {"release_check", "release_off", "release_discard"} =>
       actor.elapsed >= sustain_time
  /\ (last_op = "release_check" /\ ActorNote \in pre.an) =>
       [actor EXCEPT !.pc = "off"] \in BagToSet(releases)
  /\ last_op = "release_off" =>
       /\ sent = <<NoteOff(ActorNote, OffVelocity)>>
       /\ [actor EXCEPT !.pc = "discard"] \in BagToSet(releases)
  /\ last_op = "release_discard" => ActorNote \notin active_notes

\* A thread has removed the last note of its chord, which was active until
\* then.
C3_Witness ==
  /\ last_op = "release_discard"
  /\ actor.i = Len(actor.chord)
  /\ ActorNote \in pre.an
  /\ ActorNote \notin active_notes

\* C4: a thread that, after its sleep, does not find its note in
\* active_notes sends nothing, appends nothing to recorded_notes, leaves
\* active_notes as it is and goes on to its next note.
C4_ReleaseIdempotent ==
  (last_op = "release_check" /\ ActorNote \notin pre.an) =>
    /\ sent = <<>>
    /\ last_msg = pre.msg
    /\ active_notes = pre.an
    /\ recorded_notes = pre.log
    /\ \A t \in BagToSet(AfterNote(actor)) : t \in BagToSet(releases)

\* While a recording runs, a thread finds the last note of its chord
\* absent, and no note of its chord is active.
C4_Witness ==
  /\ last_op = "release_check"
  /\ actor.i = Len(actor.chord)
  /\ recording
  /\ recorded_notes # <<>>
  /\ \A n \in SeqRange(actor.chord) : n \notin pre.an

\* Some message of msgs is a note-off for a note whose last message, after
\* lm and the messages before it, was a note-off too.
RECURSIVE DoubleOff(_, _)
DoubleOff(lm, msgs) ==
  IF msgs = <<>> THEN FALSE
  ELSE LET m == Head(msgs)
       IN  IF m.type \notin {"on", "off"}
             THEN DoubleOff(lm, Tail(msgs))
             ELSE \/ (m.type = "off" /\ lm[m.note] = "off")
                  \/ DoubleOff([lm EXCEPT ![m.note] = m.type], Tail(msgs))

\* C5: however the stop_after_delay threads and the panic-stop of the main
\* loop interleave, no step sends a note-off for a note whose last message
\* was a note-off: no note gets two note-offs without a note-on in between.
C5_NoDoubleNoteOff == ~DoubleOff(pre.msg, sent)

\* C6: cycle_scale sends a note-off for every note that was in active_notes
\* and leaves active_notes empty, and the pending threads stay.
C6_ScaleChangeStopsNotes ==
  last_op = "cycle_scale" =>
    /\ \A n \in pre.an : HasOff(sent, n)
    /\ active_notes = {}

\* What a frame makes of a finger: up iff a hand of that side is in the
\* frame, does not pinch, and reports the finger up; the fingers of an
\* absent hand are down.
PinchCondition(hand) ==
  /\ hand.pinch_dist < pinch_threshold
  /\ hand.fingers[1] = 1
  /\ hand.fingers[2] = 1

ObservedState(side, i) ==
  IF \E k \in Idx(frame) :
       /\ HandKey(frame[k]) = side
       /\ ~PinchCondition(frame[k])
       /\ frame[k].fingers[i] = 1
    THEN 1 ELSE 0

Releases(side, i) ==
  { k \in Idx(events.releases) :
      /\ events.releases[k].side = side
      /\ events.releases[k].finger = finger_names[i] }

Presses(side, i) ==
  { k \in Idx(events.presses) :
      /\ events.presses[k].side = side
      /\ events.presses[k].finger = finger_names[i] }

\* C7: in a frame with hands, every (side, finger) that was up before and
\* is down in this frame, the fingers of an absent hand among them, gets a
\* release event with its chord.
C7_EveryFallingEdgeReleases ==
  last_op = "hands" =>
    \A side \in Sides : \A i \in 1..Len(finger_names) :
      (pre.prev[side][finger_names[i]] = 1 /\ ObservedState(side, i) = 0) =>
        \E k \in Releases(side, i) :
          events.releases[k].chord = scales[current_scale][side][finger_names[i]]

\* C8: in a frame with hands, a (side, finger) gets a press event, one,
\* with its chord, exactly when it was down before and is up in this
\* frame; a finger that was up and stays up gets none and stays in
\* active_keys; the frame's states are the next frame's previous states.
C8_PressExactlyOnRisingEdge ==
  last_op = "hands" =>
    \A side \in Sides : \A i \in 1..Len(finger_names) :
      LET f == finger_names[i]
      IN  /\ prev_states[side][f] = ObservedState(side, i)
          /\ (Presses(side, i) # {}) <=>
               (pre.prev[side][f] = 0 /\ ObservedState(side, i) = 1)
          /\ Cardinality(Presses(side, i)) <= 1
          /\ \A k \in Presses(side, i) :
               events.presses[k].chord = scales[current_scale][side][f]
          /\ (pre.prev[side][f] = 1 /\ ObservedState(side, i) = 1) =>
               (Presses(side, i) = {} /\ <<side, f>> \in active_keys)

\* A finger is held up over two frames: it stays in active_keys and none
\* of its chord's notes, all active, gets a note-on.
C8_Witness ==
  /\ last_op = "hands"
  /\ \E side \in Sides : \E i \in 1..Len(finger_names) :
       /\ pre.prev[side][finger_names[i]] = 1
       /\ ObservedState(side, i) = 1
       /\ Presses(side, i) = {}
       /\ <<side, finger_names[i]>> \in active_keys
       /\ \A n \in SeqRange(scales[current_scale][side][finger_names[i]]) :
            n \in pre.an /\ ~HasOn(sent, n)

\* The hands of the frame that pinch, by the distance of the tips and the
\* two fingers.
PinchingSides == { HandKey(frame[k]) : k \in { j \in Idx(frame) : PinchCondition(frame[j]) } }

ActiveAtPinchStop ==
  { n \in SeqRange(pinch_chord_notes) : n \in pre.an \/ HasOn(sent, n) }

\* C10: in a frame with hands where pinch_chord_playing was true and no
\* hand pinches, the frame sends a note-off for the notes of the pinch
\* chord that are active, and only for those; none of them is active
\* afterwards, the flag is false, and the frame's last message is a pitch
\* bend of 8192.
C10_PinchStopEndsChord ==
  (last_op = "hands" /\ pre.pcp /\ PinchingSides = {}) =>
    /\ \A n \in SeqRange(pinch_chord_notes) :
         /\ HasOff(sent, n) <=> n \in ActiveAtPinchStop
         /\ n \notin active_notes
    /\ ~pinch_chord_playing
    /\ sent # <<>>
    /\ sent[Len(sent)] = PitchBend(BendCenter)
    /\ PitchBend(BendCenter).lsb = 0 /\ PitchBend(BendCenter).msb = 64

\* A pinch ends with all three notes of its chord active.
C10_Witness ==
  /\ last_op = "hands"
  /\ pre.pcp
  /\ PinchingSides = {}
  /\ SeqRange(pinch_chord_notes) \subseteq pre.an
  /\ \A n \in SeqRange(pinch_chord_notes) : HasOff(sent, n)

\* C11: in a frame with hands, no finger of a pinching hand gets a press or
\* a release and none of its (side, finger) pairs is in active_keys after
\* the frame; every finger a hand that does not pinch shows up is in
\* active_keys.
C11_PinchingHandSkipsFingers ==
  last_op = "hands" =>
    \A k \in Idx(frame) : \A i \in 1..Len(finger_names) :
      LET side == HandKey(frame[k])
      IN  IF PinchCondition(frame[k])
            THEN /\ Presses(side, i) = {}
                 /\ Releases(side, i) = {}
                 /\ <<side, finger_names[i]>> \notin active_keys
            ELSE frame[k].fingers[i] = 1 => <<side, finger_names[i]>> \in active_keys

\* A hand pinches whose thumb or little finger was up before the frame
\* (held or lowered, were it processed), and the frame emits no press and
\* no release.
C11_Witness ==
  /\ last_op = "hands"
  /\ \E side \in PinchingSides :
       pre.prev[side]["thumb"] = 1 \/ pre.prev[side]["pinky"] = 1
  /\ events.presses = <<>>
  /\ events.releases = <<>>

\* The echo timers the last step has started.
NewEchoes == echoes (-) pre.ech

\* t is a timer for note, started now, that waits delay and re-sends at
\* tenths/10 of velocity, as int() cuts the product (a tenth more or less
\* in the floating-point product moves it by one).
IsEchoOf(t, note, velocity, delay, tenths) ==
  /\ t.note = note
  /\ t.delay = delay
  /\ t.elapsed = 0
  /\ t.pc = "send"
  /\ 10 * t.velocity <= tenths * velocity
  /\ tenths * velocity <= 10 * t.velocity + 10

\* C12, as the code has it: with echo enabled, a press whose chord's first
\* note is not active starts exactly two timers, both for that first note:
\* one of 80 ms at 0.7 of the velocity and one of 160 ms at 0.4 of it; a
\* press whose first note is active already starts none, nor does any
\* press with echo disabled; a timer that fires starts no timer.
C12_EchoesOfFreshFirstNote ==
  /\ last_op = "hands" =>
       /\ \A t \in BagToSet(pre.ech) : CopiesIn(t, pre.ech) <= CopiesIn(t, echoes)
       /\ \A k \in Idx(events.presses) :
            LET e == events.presses[k]
            IN  IF echo_enabled /\ e.chord[1] \notin pre.an
                  THEN /\ BagCardinality(NewEchoes) = 2
                       /\ \E t \in BagToSet(NewEchoes) :
                            IsEchoOf(t, e.chord[1], e.velocity, EchoDelay1, 7)
                       /\ \E t \in BagToSet(NewEchoes) :
                            IsEchoOf(t, e.chord[1], e.velocity, EchoDelay2, 4)
                  ELSE NewEchoes = EmptyBag
       /\ events.presses = <<>> => NewEchoes = EmptyBag
  /\ last_op \in {"echo_send", "echo_add"} =>
       BagCardinality(echoes) <= BagCardinality(pre.ech)

\* With echo enabled a press has started its two timers while a release
\* thread is pending.
C12_Witness ==
  /\ last_op = "hands"
  /\ echo_enabled
  /\ events.presses # <<>>
  /\ BagCardinality(NewEchoes) = 2
  /\ releases # EmptyBag

\* C12, as stated: with echo enabled every press starts two timers.
C12_EveryPressEchoes ==
  (last_op = "hands" /\ echo_enabled) =>
    BagCardinality(echoes) = BagCardinality(pre.ech) + 2 * Len(events.presses)

\* C13: when an echo timer is done, its note is in active_notes and, if a
\* recording runs, recorded_notes holds an "on" event for the note with the
\* velocity of the re-send.
C13_EchoIsRecorded ==
  last_op = "echo_add" =>
    /\ actor.note \in active_notes
    /\ recording =>
         \E i \in Idx(recorded_notes) :
           /\ recorded_notes[i].note = actor.note
           /\ recorded_notes[i].velocity = actor.velocity
           /\ recorded_notes[i].action = "on"

\* C14: a step other than a toggle of the recording (a frame, a step of a
\* stop_after_delay thread) taken while recording is false leaves
\* recorded_notes as it was.
C14_LogChangesOnlyWhileRecording ==
  (last_op \notin {"toggle_recording", "toggle_flag", "toggle_clear",
                   "toggle_time", "init"} /\ ~recording) =>
    recorded_notes = pre.log

\* C15: when a recording has been started, recorded_notes is empty and
\* the start is now; while a recording runs, every event of recorded_notes
\* has a timestamp from 0 up to the time since the start of this
\* recording; no thread computes a timestamp while the start is unset.
C15_TimestampsFromSessionStart ==
  /\ last_op \in {"toggle_time", "toggle_recording"} /\ recording =>
       recorded_notes = <<>> /\ rec_age = 0
  /\ (recording /\ loop_pc \notin {"toggle_clear", "toggle_time"}) =>
       \A i \in Idx(recorded_notes) :
         0 <= recorded_notes[i].time /\ recorded_notes[i].time <= rec_age
  /\ last_op # "release_error"

\* The steps of the echo Timers.
EchoStep ==
  \/ \E e \in BagToSet(echoes) : EchoSend(e)
  \/ \E e \in BagToSet(echoes) : EchoAdd(e)

\* Echoes of a thumb's chord and its releases.
NextEcho ==
  \/ \E hands \in ThumbFrames : FrameHands(hands, MaxReleases)
  \/ FrameNoHands
  \/ KeyNone
  \/ toggle_echo
  \/ Tick
  \/ ThreadStep
  \/ EchoStep

SpecEcho == Init /\ [][NextEcho]_vars

\* The frames of a left hand that holds its thumb up.
UpFrames ==
  { <<Hand("Left", <<1,0,0,0,0>>, LandmarkCount, 60, 85, 200, 100)>> }

\* Echoes while a recording is started and stopped: a thumb that is
\* raised, and lost with its hand.
NextEchoRecord ==
  \/ \E hands \in UpFrames : FrameHands(hands, MaxReleases)
  \/ FrameNoHands
  \/ KeyNone
  \/ toggle_echo
  \/ toggle_recording
  \/ Tick
  \/ EchoStep

SpecEchoRecord == Init /\ [][NextEchoRecord]_vars

\* A recording that is started and stopped statement by statement while
\* a release thread runs.
NextToggle ==
  \/ \E hands \in ThumbFrames : FrameHands(hands, MaxReleases)
  \/ KeyNone
  \/ ToggleFlag
  \/ ToggleClear
  \/ ToggleTime
  \/ Tick
  \/ ThreadStep
  \/ \E r \in BagToSet(releases) : ReleaseAppend(r)
  \/ \E r \in BagToSet(releases) : ReleaseAppendFails(r)

SpecToggle == Init /\ [][NextToggle]_vars

\* A recording of the chord of a thumb that is raised, and lost with its
\* hand, and the playback of the recording.
NextPlayback ==
  \/ \E hands \in UpFrames : FrameHands(hands, MaxReleases)
  \/ FrameNoHands
  \/ KeyNone
  \/ toggle_recording
  \/ playback_recording
  \/ Tick
  \/ PlaybackStep

SpecPlayback == Init /\ [][NextPlayback]_vars
\* A recording of a thumb's chord and of its release, and the playback of
\* the recording once it has stopped and the releases have ended; no frame
\* shows a hand while the playback runs.
NextRoundTrip ==
  \/ playbacks = EmptyBag /\ \E hands \in ThumbFrames : FrameHands(hands, MaxReleases)
  \/ KeyNone
  \/ playbacks = EmptyBag /\ toggle_recording
  \/ ~recording /\ releases = EmptyBag /\ playback_recording
  \/ Tick
  \/ ThreadStep
  \/ \E r \in BagToSet(releases) : ReleaseAppend(r)
  \/ PlaybackStep

SpecRoundTrip == Init /\ [][NextRoundTrip]_vars
\* C16: a playback request sends nothing and changes neither active_notes
\* nor the log; with an empty log, or while a playback thread is alive, it
\* starts no thread, and otherwise it starts one; there is never more than
\* one playback thread.
C16_AtMostOnePlayback ==
  /\ BagCardinality(playbacks) <= 1
  /\ last_op = "playback_recording" =>
       /\ sent = <<>>
       /\ active_notes = pre.an
       /\ active_keys = pre.keys
       /\ recorded_notes = pre.log
       /\ last_msg = pre.msg
       /\ (pre.log = <<>> \/ pre.pb # EmptyBag) => playbacks = pre.pb
       /\ (pre.log # <<>> /\ pre.pb = EmptyBag) =>
            \E t \in BagToSet(playbacks) : t.pc = "flush" /\ t.k = 1

\* A request is rejected while a playback of a recording runs.
C16_Witness ==
  /\ last_op = "playback_recording"
  /\ pre.log # <<>>
  /\ pre.pb # EmptyBag
  /\ playbacks = pre.pb
\* msgs is one note-off, of velocity 127, for each note of S and nothing
\* else.
OffsForAll(msgs, S) ==
  /\ Len(msgs) = Cardinality(S)
  /\ \A n \in S : HasOff(msgs, n)
  /\ \A i \in Idx(msgs) : msgs[i].type = "off" /\ msgs[i].velocity = OffVelocity

\* The list the playback thread t iterated over in the step just taken.
ActorList == IF actor.live THEN pre.log ELSE actor.list

\* C17: the first step of a playback thread sends a note-off for every
\* active note and empties active_notes, before any event (the thread is
\* then at its first event); each later step replays the event the thread
\* is at, adding the note of an "on" and removing the note of an "off",
\* and moves to the next event of the list; when the list is exhausted the
\* thread sends a note-off for every active note, empties active_notes and
\* ends.
C17_PlaybackFlushesAndReplaysInOrder ==
  /\ last_op = "playback_flush" =>
       /\ actor.k = 1
       /\ OffsForAll(sent, pre.an)
       /\ active_notes = {}
       /\ [actor EXCEPT !.pc = "events"] \in BagToSet(playbacks)
  /\ last_op = "playback_event" =>
       /\ actor.pc = "events"
       /\ actor.k \in 1..Len(ActorList)
       /\ LET event == ActorList[actor.k]
          IN  /\ sent = <<[type |-> event.action, note |-> event.note,
                           velocity |-> event.velocity]>>
              /\ event.action = "on" => active_notes = pre.an \cup {event.note}
              /\ event.action = "off" => active_notes = pre.an \ {event.note}
       /\ [actor EXCEPT !.k = @ + 1] \in BagToSet(playbacks)
  /\ last_op = "playback_end" =>
       /\ actor.pc = "events"
       /\ actor.k = Len(ActorList) + 1
       /\ OffsForAll(sent, pre.an)
       /\ active_notes = {}
       /\ actor \notin BagToSet(playbacks)

\* A playback has replayed a log of an "on" and an "off" to its end, and
\* its last flush stops a note that the replay had started.
C17_Witness ==
  /\ last_op = "playback_end"
  /\ pre.an # {}
  /\ \E i, j \in 1..Len(ActorList) :
       ActorList[i].action = "on" /\ ActorList[j].action = "off"
\* The (note, action) pairs of a list of recorded events.
Pairs(log) ==
  [i \in 1..Len(log) |-> [note |-> log[i].note, action |-> log[i].action]]

\* A stop_after_delay thread has sent a note-off and has not yet reached
\* the end of its append.
ReleaseInFlight == \E r \in BagToSet(releases) : r.pc \in {"discard", "append"}

\* C18: when a recording is stopped while no release is between its
\* note-off and its append, the (note, action) pairs of the log are, in
\* order, the pairs that presses and releases have sent during the
\* recording; a playback replays the pair of the event it is at, and not
\* before the event's timestamp has elapsed since the playback started.
C18_RoundTrip ==
  /\ (last_op = "toggle_recording" /\ ~recording /\ ~ReleaseInFlight) =>
       Pairs(recorded_notes) = pre.emit
  /\ last_op = "playback_event" =>
       /\ Len(sent) = 1
       /\ [note |-> sent[1].note, action |-> sent[1].type] =
            Pairs(ActorList)[actor.k]
       /\ actor.elapsed >= ActorList[actor.k].time
\* Nothing has been recorded or played yet, and no echo is enabled.
Silent ==
  /\ recorded_notes = <<>>
  /\ active_notes = {}
  /\ releases = EmptyBag
  /\ echoes = EmptyBag
  /\ ~echo_enabled

\* A thumb presses and releases its chord, with echoes as long as nothing
\* is recorded; once a chord is recorded, it goes on while the recording is
\* played back.
NextTasks ==
  \/ \E hands \in ThumbFrames : FrameHands(hands, MaxReleases)
  \/ KeyNone
  \/ (recording \/ Silent) /\ toggle_recording
  \/ recorded_notes = <<>> /\ ~recording /\ toggle_echo
  \/ ~recording /\ playback_recording
  \/ ~recording /\ Tick
  \/ ThreadStep
  \/ EchoStep
  \/ PlaybackStep

SpecTasks == Init /\ [][NextTasks]_vars
\* C19: the frame that schedules a release returns with the release's
\* thread at the start of its sleep and without any note-off of the
\* sustain, and the frame that schedules echoes with their timers at the
\* start of their delays; the key step that starts a playback returns with
\* the thread before its first flush, having sent nothing; each of these
\* steps leaves the loop at its next position, and whatever tasks are
\* pending, the loop at "frame" can process a frame and the loop at "key"
\* can read the keyboard.
C19_SchedulingNeverBlocks ==
  /\ last_op = "hands" =>
       /\ loop_pc = "key"
       /\ \A k \in Idx(events.releases) :
            /\ \E r \in BagToSet(releases) :
                 /\ r.chord = events.releases[k].chord
                 /\ r.elapsed = 0
                 /\ r.pc = "check"
                 /\ r.i = 1
            /\ \A n \in SeqRange(events.releases[k].chord) : ~HasOff(sent, n)
       /\ \A t \in BagToSet(NewEchoes) : t.elapsed = 0 /\ t.pc = "send"
  /\ (last_op = "playback_recording" /\ playbacks # pre.pb) =>
       /\ loop_pc = "frame"
       /\ sent = <<>>
       /\ active_notes = pre.an
       /\ \A t \in BagToSet(playbacks) :
            t.pc = "flush" /\ t.k = 1 /\ t.elapsed = 0
  /\ loop_pc = "frame" => ENABLED FrameNoHands
  /\ loop_pc = "key" => ENABLED KeyNone

\* A frame presses a chord while a playback thread runs and a release
\* thread is in its sleep.
C19_Witness ==
  /\ last_op = "hands"
  /\ events.presses # <<>>
  /\ playbacks # EmptyBag
  /\ \E r \in BagToSet(releases) : r.elapsed > 0 /\ r.elapsed < sustain_time
(* ------------------------------- cleanup ------------------------------- *)

\* "for note in list(self.active_notes)": a note_off for each note.
CleanupOffs(an) ==
  [i \in 1..Cardinality(an) |-> NoteOff(SortedSeq(an)[i], OffVelocity)]

\* What a step of cleanup leaves alone, and the history it writes.
CleanupDone(name) ==
  /\ last_op' = name
  /\ actor' = NoActor
  /\ pre' = Before
  /\ frame' = <<>>
  /\ events' = NoEvents
  /\ last_msg' = ApplyMsgs(last_msg, sent')
  /\ UNCHANGED <<current_scale, prev_states, active_keys,
                 pinch_chord_playing, recording, recorded_notes, rec_age,
                 echo_enabled, releases, echoes, playbacks, emitted, args,
                 ret>>

\* Key 'q' breaks the loop and "finally" calls cleanup: the loop of
\* note-offs over list(self.active_notes), which discards nothing.  The
\* threads and timers are not joined or cancelled.
cleanup ==
  /\ loop_pc = "key"
  /\ cleanup_notes' = active_notes
  /\ sent' = CleanupOffs(cleanup_notes')
  /\ loop_pc' = "clearing"
  /\ CleanupDone("cleanup")
  /\ UNCHANGED active_notes

\* self.active_notes.clear()
CleanupClear ==
  /\ loop_pc = "clearing"
  /\ sent' = <<>>
  /\ active_notes' = {}
  /\ loop_pc' = "closing"
  /\ CleanupDone("cleanup_clear")
  /\ UNCHANGED <<cleanup_notes, args, ret>>

\* The rest of cleanup: the camera and the windows are released and the
\* MIDI output is closed; nothing can be sent afterwards.
CleanupClose ==
  /\ loop_pc = "closing"
  /\ sent' = <<>>
  /\ loop_pc' = "closed"
  /\ CleanupDone("closed")
  /\ UNCHANGED <<cleanup_notes, args, ret>>
  /\ UNCHANGED active_notes

\* An "except Exception" that would leave run without its "finally".
RunsCleanupMut(way) == way # "raised"

\* "finally: self.cleanup()": whatever ends the loop.
RunsCleanup(way) == TRUE

\* The ways the loop ends besides key 'q': KeyboardInterrupt
\* ("interrupted") and an Exception raised by a frame or by a key handler
\* ("raised"); the handler prints, and "finally" follows.
AbortWays == {"interrupted", "raised"}

LoopAborts(way) ==
  /\ loop_pc \in {"frame", "key"}
  /\ IF RunsCleanup(way)
       THEN /\ cleanup_notes' = active_notes
            /\ sent' = CleanupOffs(cleanup_notes')
            /\ loop_pc' = "clearing"
       ELSE /\ sent' = <<>>
            /\ loop_pc' = "closed"
            /\ UNCHANGED <<cleanup_notes, args, ret>>
  /\ CleanupDone(way)
  /\ UNCHANGED active_notes

\* The MIDI output is open.
PlayerOpen == loop_pc # "closed"

\* A thumb's chord with its echoes and releases, until the program is
\* closed.
NextCleanup ==
  \/ \E hands \in ThumbFrames : FrameHands(hands, MaxReleases)
  \/ FrameNoHands
  \/ KeyNone
  \/ toggle_echo
  \/ cleanup
  \/ \E way \in AbortWays : LoopAborts(way)
  \/ CleanupClear
  \/ CleanupClose
  \/ PlayerOpen /\ Tick
  \/ PlayerOpen /\ ThreadStep
  \/ PlayerOpen /\ EchoStep

SpecCleanup == Init /\ [][NextCleanup]_vars

\* C20: once cleanup has run, active_notes is empty and the last message
\* the synthesizer got for any note is not a note-on.
C20_CleanupSilencesAll ==
  loop_pc = "closed" =>
    /\ active_notes = {}
    /\ \A n \in AllNotes : last_msg[n] # "on"
\* The steps in which cleanup's note-offs run.
CleanupOps == {"cleanup"} \cup AbortWays

\* The positions of cleanup, in its order.
CleanupPositions == <<"clearing", "closing", "closed">>

\* C21: a step that takes the loop out of its "frame" and "key" positions
\* is the quit key, an interrupt or an exception, and it starts cleanup
\* (note-offs for all active notes; the clear and the closing of the
\* devices still to come); once the loop has ended it is not resumed,
\* cleanup does not start again, and its positions are passed in order, one
\* at a time.
C21_LoopEndRunsCleanupOnce ==
  [][ /\ (loop_pc \in {"frame", "key"} /\ loop_pc' \notin {"frame", "key"}) =>
           /\ last_op' \in CleanupOps
           /\ loop_pc' = CleanupPositions[1]
           /\ \A n \in active_notes : HasOff(sent', n)
      /\ \A i \in 1..Len(CleanupPositions) :
           loop_pc = CleanupPositions[i] =>
             /\ last_op' \notin CleanupOps
             /\ \/ loop_pc' = loop_pc
                \/ i < Len(CleanupPositions) /\ loop_pc' = CleanupPositions[i + 1]
    ]_vars

\* An exception has ended the loop while notes were active, and cleanup has
\* sent their note-offs.
C21_Witness ==
  /\ last_op = "raised"
  /\ loop_pc = "clearing"
  /\ pre.an # {}
  /\ \A n \in pre.an : HasOff(sent, n)
\* The notes the last step has added to active_notes, and those it has
\* removed.
Added == active_notes \ pre.an

Removed == pre.an \ active_notes

\* C22: a step of the main loop or of the playback thread adds only notes
\* it has sent a note-on for and removes only notes it has sent a note-off
\* for; an echo timer adds only the note it has re-sent, a release thread
\* removes only the note it has sent the note-off for, and cleanup's clear
\* removes only notes that cleanup's loop has sent a note-off for; no other
\* step changes active_notes.
C22_SetChangesFollowMessages ==
  /\ last_op \in {"hands", "no_hands", "playback_flush", "playback_event",
                  "playback_end"} =>
       /\ \A n \in Added : HasOn(sent, n)
       /\ \A n \in Removed : HasOff(sent, n)
  /\ last_op = "echo_add" =>
       /\ actor.pc = "add"
       /\ Added \subseteq {actor.note}
       /\ Removed = {}
  /\ last_op = "release_discard" =>
       /\ actor.pc = "discard"
       /\ Removed \subseteq {ActorNote}
       /\ Added = {}
  /\ last_op = "cleanup_clear" =>
       /\ Removed \subseteq cleanup_notes
       /\ Added = {}
  /\ last_op \notin {"hands", "no_hands", "playback_flush", "playback_event",
                     "playback_end", "echo_add", "release_discard",
                     "cleanup_clear"} =>
       active_notes = pre.an
\* C23: while the main loop runs, at each point where it may read
\* active_notes (the panic-stop of a frame, the rendering after a frame), a
\* note is in active_notes if and only if the last message sent for it is
\* a note-on.
C23_SetMatchesSynthesizer ==
  loop_pc \in {"frame", "key"} =>
    \A n \in AllNotes : (n \in active_notes) <=> (last_msg[n] = "on")
\* C24: cycle_scale takes D_Major to C_Major, C_Major to Pentatonic and
\* Pentatonic to D_Major, so that three cycles from any scale give that
\* scale and its chords again; right after a cycle prev_states is all-down
\* and active_keys is empty.
C24_ScaleCyclesInOrder ==
  /\ last_op = "cycle_scale" =>
       /\ pre.scale = "D_Major" => current_scale = "C_Major"
       /\ pre.scale = "C_Major" => current_scale = "Pentatonic"
       /\ pre.scale = "Pentatonic" => current_scale = "D_Major"
       /\ prev_states = AllDown
       /\ active_keys = {}
  /\ current_scale \in SeqRange(scale_names)
  /\ NextScale(NextScale(NextScale(current_scale))) = current_scale
  /\ scales[NextScale(NextScale(NextScale(current_scale)))] = scales[current_scale]

\* The third cycle, back to D_Major, while a thumb was up and shown.
C24_Witness ==
  /\ last_op = "cycle_scale"
  /\ pre.scale = "Pentatonic"
  /\ current_scale = "D_Major"
  /\ pre.keys # {}
  /\ pre.prev # AllDown
(* ---------------------------- get_chord_name --------------------------- *)

\* Strings are sequences of one-character strings where the code takes
\* them apart.
note_names ==
  << <<"C">>, <<"C", "#">>, <<"D">>, <<"D", "#">>, <<"E">>, <<"F">>,
     <<"F", "#">>, <<"G">>, <<"G", "#">>, <<"A">>, <<"A", "#">>, <<"B">> >>

DigitChars == <<"0", "1", "2", "3", "4", "5", "6", "7", "8", "9">>

\* str() of an integer.
RECURSIVE NatChars(_)
NatChars(n) ==
  IF n < 10 THEN <<DigitChars[n + 1]>>
  ELSE NatChars(n \div 10) \o <<DigitChars[(n % 10) + 1]>>

IntChars(n) == IF n < 0 THEN <<"-">> \o NatChars(-n) ELSE NatChars(n)

\* MusicTheoryHelper.note_to_name: f"{note_name}{octave}".
note_to_name(midi_note) ==
  note_names[(midi_note % 12) + 1] \o IntChars((midi_note \div 12) - 1)

\* A root name that keeps the octave.
RootNameMut(raw) == raw

\* ''.join([char for char in root_name_raw
\*          if not char.isdigit() and char not in ['-', '+']])
RootName(raw) ==
  SelectSeq(raw, LAMBDA c : c \notin SeqRange(DigitChars) /\ c \notin {"-", "+"})

RECURSIVE Joined(_)
Joined(chars) ==
  IF chars = <<>> THEN "" ELSE Head(chars) \o Joined(Tail(chars))

\* sorted(notes)
Sorted(notes) == SortSeq(notes, LAMBDA a, b : a < b)

get_chord_name(notes) ==
  IF notes = <<>> THEN "---"
  ELSE
    LET sorted_notes == Sorted(notes)
        root_name == Joined(RootName(note_to_name(sorted_notes[1])))
    IN  IF Len(sorted_notes) = 1 THEN root_name
        ELSE IF Len(sorted_notes) = 2
          THEN LET interval == sorted_notes[2] - sorted_notes[1]
               IN  IF interval = 3 THEN root_name \o " m3"
                   ELSE IF interval = 4 THEN root_name \o " M3"
                   ELSE IF interval = 7 THEN root_name \o " P5"
                   ELSE root_name \o " Pair"
        ELSE LET interval1 == sorted_notes[2] - sorted_notes[1]
                 interval2 == sorted_notes[3] - sorted_notes[2]
             IN  IF interval1 = 4 /\ interval2 = 3 THEN root_name \o " Maj"
                 ELSE IF interval1 = 3 /\ interval2 = 4 THEN root_name \o " Min"
                 ELSE IF interval1 = 5 /\ interval2 = 2 THEN root_name \o " Sus4"
                 ELSE IF interval1 = 2 /\ interval2 = 5 THEN root_name \o " Sus2"
                 ELSE root_name \o " Triad"

\* The lists get_chord_name is called with here: those of up to MaxNameLen
\* notes, in any order, of an octave around middle C and of the ends of
\* the MIDI range, those of one note more of a C major chord with its
\* octave, and the chords of the scales and of the pinch.
MaxNameLen == 3

NameNotes == {0, 11, 127} \cup 57..69

ScaleChords ==
  {scales[s][h][f] : s \in SeqRange(scale_names), h \in Sides, f \in FingerSet}

NameInputs ==
  UNION {[1..n -> NameNotes] : n \in 1..MaxNameLen}
  \cup [1..(MaxNameLen + 1) -> {60, 64, 67, 72}]
  \cup ScaleChords \cup {pinch_chord_notes}

InitChordName ==
  /\ Constructed
  /\ args \in NameInputs
  /\ ret = NoReturn

\* The call returns; nothing else is assigned to.
CallGetChordName ==
  /\ ~ret.done
  /\ ret' = Returned(get_chord_name(args))
  /\ UNCHANGED <<current_scale, prev_states, active_notes, active_keys,
                 pinch_chord_playing, recording, recorded_notes, rec_age,
                 echo_enabled, releases, echoes, playbacks, loop_pc,
                 cleanup_notes, last_msg, last_op, actor, pre, frame, events,
                 sent, emitted, args>>

SpecChordName == InitChordName /\ [][CallGetChordName]_vars

\* The names of the twelve pitch classes, from C.
PitchClassNames ==
  <<"C", "C#", "D", "D#", "E", "F", "F#", "G", "G#", "A", "A#", "B">>

\* The lowest note of a list, and the notes in ascending order.
Lowest(notes) == CHOOSE n \in SeqRange(notes) : \A m \in SeqRange(notes) : n <= m

Ascending(notes) ==
  CHOOSE s \in [1..Len(notes) -> SeqRange(notes)] :
    /\ \A i \in 1..(Len(s) - 1) : s[i] <= s[i + 1]
    /\ \A n \in SeqRange(notes) :
         Cardinality({i \in 1..Len(s) : s[i] = n}) =
         Cardinality({i \in 1..Len(notes) : notes[i] = n})

\* The suffix the claim gives a list of notes.
NameSuffix(notes) ==
  LET s == Ascending(notes)
  IN  IF Len(s) = 1 THEN ""
      ELSE IF Len(s) = 2
        THEN CASE s[2] - s[1] = 3 -> " m3"
               [] s[2] - s[1] = 4 -> " M3"
               [] s[2] - s[1] = 7 -> " P5"
               [] OTHER -> " Pair"
        ELSE CASE <<s[2] - s[1], s[3] - s[2]>> = <<4, 3>> -> " Maj"
               [] <<s[2] - s[1], s[3] - s[2]>> = <<3, 4>> -> " Min"
               [] <<s[2] - s[1], s[3] - s[2]>> = <<5, 2>> -> " Sus4"
               [] <<s[2] - s[1], s[3] - s[2]>> = <<2, 5>> -> " Sus2"
               [] OTHER -> " Triad"

VelocityDistances == {0, 20, 21, 30, 50, 85, 120, 149, 150, 400}

VelocityTenths == {1, 5, 10, 15, 20}

\* int(20 + np.clip((distance - 20) / 130, 0, 1) ** 0.6 * 107 * m) for
\* m = 0.1, 0.5, 1.0, 1.5, 2.0: the values the floating-point expression
\* evaluates to.
RawVelocity(distance, tenths) ==
  LET row == CASE distance <= 20  -> <<20, 20, 20, 20, 20>>
               [] distance = 21   -> <<20, 22, 25, 28, 31>>
               [] distance = 30   -> <<22, 31, 42, 54, 65>>
               [] distance = 50   -> <<24, 42, 64, 86, 108>>
               [] distance = 85   -> <<27, 55, 90, 125, 161>>
               [] distance = 120  -> <<29, 65, 111, 157, 202>>
               [] distance = 149  -> <<30, 73, 126, 179, 233>>
               [] distance >= 150 -> <<30, 73, 127, 180, 234>>
  IN  row[CASE tenths = 1 -> 1 [] tenths = 5 -> 2 [] tenths = 10 -> 3
            [] tenths = 15 -> 4 [] tenths = 20 -> 5]

\* A return without the clip.
ClipMut(v, lo, hi) == v

\* np.clip(v, lo, hi)
Clip(v, lo, hi) == IF v < lo THEN lo ELSE IF v > hi THEN hi ELSE v

\* finger_landmarks: the fingers that have a (tip, base) pair.
FingerIndices == 0..4

\* calculate_dynamic_velocity for a hand with `landmarks` landmarks whose
\* finger finger_index has the given tip-to-base distance, at
\* velocity_multiplier tenths/10.
DynamicVelocity(landmarks, finger_index, distance, tenths) ==
  IF landmarks = 0 \/ landmarks <= 20 THEN DefaultVelocity
  ELSE IF finger_index \notin FingerIndices THEN DefaultVelocity
  ELSE Clip(RawVelocity(distance, tenths), 20, 127)

\* The calls: no landmarks, a list that lacks the last landmark, and the
\* complete list.
VelocityInputs ==
  [landmarks : {0, LandmarkCount - 1, LandmarkCount},
   finger_index : FingerIndices,
   distance : VelocityDistances,
   tenths : VelocityTenths]

InitVelocity ==
  /\ Constructed
  /\ args \in VelocityInputs
  /\ ret = NoReturn

\* The call returns; nothing else is assigned to.
CallDynamicVelocity ==
  /\ ~ret.done
  /\ ret' = Returned(DynamicVelocity(args.landmarks, args.finger_index,
                                     args.distance, args.tenths))
  /\ UNCHANGED <<current_scale, prev_states, active_notes, active_keys,
                 pinch_chord_playing, recording, recorded_notes, rec_age,
                 echo_enabled, releases, echoes, playbacks, loop_pc,
                 cleanup_notes, last_msg, last_op, actor, pre, frame, events,
                 sent, emitted, args>>

SpecVelocity == InitVelocity /\ [][CallDynamicVelocity]_vars

\* C26: with all 21 landmarks the velocity is an integer of 20..127, the
\* unclipped value where that lies in the range and the nearer end of the
\* range where it does not, whatever the finger; at multiplier 1.0 it is
\* the velocity the frames use; with fewer landmarks it is 80; the call
\* leaves the state as __init__ made it.
C26_VelocityInRange ==
  ret.done =>
    /\ args.landmarks >= LandmarkCount =>
         /\ ret.value \in 20..127
         /\ \A v \in 20..127 :
              RawVelocity(args.distance, args.tenths) = v => ret.value = v
         /\ RawVelocity(args.distance, args.tenths) > 127 => ret.value = 127
         /\ (args.tenths = 10 /\ args.distance \in {20, 85, 150}) =>
              ret.value = calculate_dynamic_velocity(args.landmarks, args.distance)
    /\ args.landmarks < LandmarkCount => ret.value = 80
    /\ Constructed

\* A long finger at full volume: the unclipped 234 is returned as 127.
C26_Witness ==
  /\ ret.done
  /\ args.landmarks = LandmarkCount
  /\ args.tenths = 20
  /\ RawVelocity(args.distance, args.tenths) = 234
  /\ ret.value = 127
(* ------------------------------ pitch bend ----------------------------- *)

\* bbox x of the pinching hands of the frames below: left of the image,
\* at its edges, around its middle, right of it.
BendXs == {-200, -51, -50, 0, 1, 320, 589, 590, 591, 960, 1229, 1230, 1280, 2000}

\* A pinching hand of either side, its bbox 100 or 101 wide, and a frame
\* in which both hands pinch.
BendFrames ==
  { <<Hand(t, <<1,1,0,0,0>>, LandmarkCount, 10, 85, x, w)>> :
      t \in {"Left", "Right"}, x \in BendXs, w \in {100, 101} }
  \cup { <<Hand("Left", <<1,1,0,0,0>>, LandmarkCount, 10, 85, 590, 100),
            Hand("Right", <<1,1,0,0,0>>, LandmarkCount, 10, 85, 2000, 100)>> }

\* Pinching hands that move across the image, and are lost.
NextBend ==
  \/ \E hands \in BendFrames : FrameHands(hands, MaxReleases)
  \/ FrameNoHands
  \/ KeyNone

SpecBend == Init /\ [][NextBend]_vars

\* The pitch-bend messages of the last step, and the 14-bit value of one.
Bends == SelectSeq(sent, LAMBDA m : m.type = "bend")

BendValue(m) == m.msb * 128 + m.lsb

\* The hands of the frame that pinch.
PinchingHands == SelectSeq(frame, PinchCondition)

\* v is centre x over screen_width, clipped to [0, 1], times 16383, cut to
\* an integer.
IsBendOf(v, center_x) ==
  /\ v \in 0..BendMax
  /\ center_x <= 0 => v = 0
  /\ center_x >= screen_width => v = BendMax
  /\ (center_x > 0 /\ center_x < screen_width) =>
       /\ v * screen_width <= center_x * BendMax
       /\ center_x * BendMax < (v + 1) * screen_width
  /\ 2 * center_x = screen_width => v \in {8191, 8192}

\* C27: a frame with hands sends a pitch-bend for each hand that pinches,
\* in the order of the hands and before any other bend, and its value is
\* that of the hand's centre x (x + w \div 2): in 0..16383, and 8191 or
\* 8192 at half the screen width.
C27_PinchBendsByCentre ==
  last_op = "hands" =>
    /\ Len(Bends) >= Len(PinchingHands)
    /\ \A k \in 1..Len(PinchingHands) :
         IsBendOf(BendValue(Bends[k]),
                  PinchingHands[k].x + PinchingHands[k].w \div 2)

\* A hand pinches with its centre at half the screen width, and the bend
\* is 8191.
C27_Witness ==
  /\ last_op = "hands"
  /\ Len(PinchingHands) = 1
  /\ 2 * (PinchingHands[1].x + PinchingHands[1].w \div 2) = screen_width
  /\ BendValue(Bends[1]) = 8191

(* ------------------------------ load_config ---------------------------- *)

\* The settings load_config assigns, as __init__ and the camera setup leave
\* them: velocity_multiplier in tenths, sustain_time in milliseconds.
DefaultSettings ==
  [current_scale |-> "D_Major", current_instrument |-> 0,
   velocity_multiplier |-> 10, sustain_time |-> sustain_time,
   echo_enabled |-> FALSE, reverb_enabled |-> TRUE,
   pinch_threshold |-> pinch_threshold,
   screen_width |-> screen_width, screen_height |-> 720]

\* The keys save_config writes and load_config reads.
ConfigKeys == DOMAIN DefaultSettings

\* Values a file holds that differ from every default; General MIDI has the
\* instruments 0..127, and the file may name one that does not exist.
StoredConfig ==
  [current_scale |-> "Pentatonic", current_instrument |-> 40,
   velocity_multiplier |-> 15, sustain_time |-> 1500,
   echo_enabled |-> TRUE, reverb_enabled |-> FALSE,
   pinch_threshold |-> 45, screen_width |-> 640, screen_height |-> 480]

StoredInstruments == {StoredConfig.current_instrument, 200}

\* air_piano_config.json: absent, not JSON, JSON that is not an object (an
\* array), or an object with any of the keys.
ConfigFiles ==
  {[state |-> "missing"], [state |-> "malformed"],
   [state |-> "parsed", object |-> FALSE]}
    \cup {[state |-> "parsed", object |-> TRUE,
           config |-> [k \in keys |-> IF k = "current_instrument"
                                        THEN i ELSE StoredConfig[k]]] :
            keys \in SUBSET ConfigKeys, i \in StoredInstruments}

\* dict.get(key, default)
Get(config, key, default) ==
  IF key \in DOMAIN config THEN config[key] ELSE default

\* player.set_instrument: the program change on channel 0.
ProgramChange(instrument) == [type |-> "program", instrument |-> instrument]

\* The try block: the settings as it leaves them, the exception that ends
\* it, the messages it has sent. A missing file raises before anything is
\* read, json.load raises on what is not JSON, .get on what is not an object
\* raises AttributeError at the first assignment, and set_instrument raises
\* ValueError, after all the assignments, for an instrument outside 0..127.
LoadBody(piano, file) ==
  IF file.state = "missing"
    THEN [settings |-> piano, exc |-> "FileNotFoundError", sent |-> <<>>]
  ELSE IF file.state = "malformed"
    THEN [settings |-> piano, exc |-> "JSONDecodeError", sent |-> <<>>]
  ELSE IF ~file.object
    THEN [settings |-> piano, exc |-> "AttributeError", sent |-> <<>>]
  ELSE
    LET assigned ==
          [current_scale |-> Get(file.config, "current_scale", "D_Major"),
           current_instrument |-> Get(file.config, "current_instrument", 0),
           velocity_multiplier |-> Get(file.config, "velocity_multiplier", 10),
           sustain_time |-> Get(file.config, "sustain_time", 800),
           echo_enabled |-> Get(file.config, "echo_enabled", FALSE),
           reverb_enabled |-> Get(file.config, "reverb_enabled", TRUE),
           pinch_threshold |-> Get(file.config, "pinch_threshold", 30),
           screen_width |-> Get(file.config, "screen_width", piano.screen_width),
           screen_height |-> Get(file.config, "screen_height", piano.screen_height)]
    IN  IF assigned.current_instrument \in 0..127
          THEN [settings |-> assigned, exc |-> "none",
                sent |-> <<ProgramChange(assigned.current_instrument)>>]
          ELSE [settings |-> assigned, exc |-> "ValueError", sent |-> <<>>]

CaughtMut(exc) == exc \in {"FileNotFoundError", "JSONDecodeError"}

\* The except clauses: FileNotFoundError, json.JSONDecodeError, Exception;
\* each of the exceptions of the try block is an Exception.
Caught(exc) ==
  \/ exc = "FileNotFoundError"
  \/ exc = "JSONDecodeError"
  \/ exc \in {"FileNotFoundError", "JSONDecodeError", "AttributeError",
              "ValueError"}

\* ConfigManager.load_config(piano_instance): the settings of the instance
\* when the call ends, the messages sent and the exception the call ends
\* with ("none" when it returns).
load_config(piano, file) ==
  LET body == LoadBody(piano, file)
  IN  [settings |-> body.settings, sent |-> body.sent,
       raised |-> IF body.exc # "none" /\ ~Caught(body.exc)
                    THEN body.exc ELSE "none"]

\* The main block: piano = EnhancedAirPiano(), then load_config(piano).
InitConfig ==
  /\ Constructed
  /\ args \in ConfigFiles
  /\ ret = NoReturn

CallLoadConfig ==
  LET result == load_config(DefaultSettings, args)
  IN  /\ ~ret.done
      /\ ret' = Returned(result)
      /\ current_scale' = result.settings.current_scale
      /\ echo_enabled' = result.settings.echo_enabled
      /\ sent' = result.sent
      /\ UNCHANGED <<prev_states, active_notes, active_keys,
                     pinch_chord_playing, recording, recorded_notes, rec_age,
                     releases, echoes, playbacks, loop_pc, cleanup_notes,
                     last_msg, last_op, actor, pre, frame, events, emitted,
                     args>>

SpecConfig == InitConfig /\ [][CallLoadConfig]_vars

\* C28: load_config ends without an exception; a key the file's object does
\* not have leaves its setting at the documented default (scale D_Major,
\* instrument 0, volume 1.0, sustain 0.8 s, echo off, reverb on, pinch
\* threshold 30) while a key it has sets it; and with the file missing, not
\* JSON or not a JSON object every setting is as __init__ made it and
\* nothing is sent.
C28_LoadConfigFallsBackToDefaults ==
  ret.done =>
    LET settings == ret.value.settings
        Documented ==
          [current_scale |-> "D_Major", current_instrument |-> 0,
           velocity_multiplier |-> 10, sustain_time |-> 800,
           echo_enabled |-> FALSE, reverb_enabled |-> TRUE,
           pinch_threshold |-> 30]
    IN  /\ ret.value.raised = "none"
        /\ (args.state = "parsed" /\ args.object) =>
             \A k \in DOMAIN Documented :
               /\ k \notin DOMAIN args.config => settings[k] = Documented[k]
               /\ k \in DOMAIN args.config => settings[k] = args.config[k]
        /\ ~(args.state = "parsed" /\ args.object) =>
             /\ settings = DefaultSettings
             /\ \A k \in DOMAIN Documented : settings[k] = Documented[k]
             /\ sent = <<>>
        /\ current_scale = settings.current_scale
        /\ echo_enabled = settings.echo_enabled

\* A file with the sustain time only, and a file that is not an object:
\* every other setting, and every setting, is the default.
C28_Witness ==
  /\ ret.done
  /\ \/ /\ args.state = "parsed" /\ args.object
        /\ DOMAIN args.config = {"sustain_time"}
        /\ ret.value.settings.sustain_time = 1500
        /\ ret.value.settings.pinch_threshold = 30
     \/ /\ args.state = "parsed" /\ ~args.object
        /\ ret.value.settings = DefaultSettings

(* ------------------- the keys and states a frame leaves ------------------ *)

\* The hands of the frame whose fingers process_hands looks at: those of
\* the side that do not pinch.
FingerHands(side) ==
  { k \in Idx(frame) : HandKey(frame[k]) = side /\ ~PinchCondition(frame[k]) }

\* current_finger_states[side][finger_names[i]] at the end of process_hands:
\* what the last such hand reports, 0 when there is none.
CurrentFingerState(side, i) ==
  IF FingerHands(side) = {} THEN 0
  ELSE frame[CHOOSE k \in FingerHands(side) :
               \A j \in FingerHands(side) : j <= k].fingers[i]

\* C29: after a frame with hands active_keys holds exactly the (side,
\* finger) pairs that a hand of the frame, not pinching, reports up,
\* whatever it held before, and prev_states is the frame's
\* current_finger_states; after a frame without hands prev_states is
\* all-down and active_keys is empty.
C29_FrameReplacesKeysAndStates ==
  /\ last_op = "hands" =>
       /\ active_keys =
            { <<side, finger_names[i]>> : <<side, i>> \in
                { p \in Sides \X (1..Len(finger_names)) :
                    \E k \in FingerHands(p[1]) : frame[k].fingers[p[2]] = 1 } }
       /\ \A side \in Sides : \A i \in 1..Len(finger_names) :
            prev_states[side][finger_names[i]] = CurrentFingerState(side, i)
  /\ last_op = "no_hands" =>
       /\ prev_states = AllDown
       /\ active_keys = {}

\* A frame with hands that shows a key and drops one the frame before
\* showed.
C29_Witness ==
  /\ last_op = "hands"
  /\ active_keys # {}
  /\ pre.keys \ active_keys # {}
  /\ prev_states # pre.prev

(* ------------------------ a frame that is not read ----------------------- *)

\* C30: a frame the camera fails to deliver leaves prev_states,
\* active_keys, active_notes, pinch_chord_playing and recorded_notes as
\* they were, sends nothing to the synthesizer, and the loop is at the next
\* frame (no key is read in between).
C30_FailedReadChangesNothing ==
  last_op = "read_failed" =>
    /\ prev_states = pre.prev
    /\ active_keys = pre.keys
    /\ active_notes = pre.an
    /\ pinch_chord_playing = pre.pcp
    /\ recorded_notes = pre.log
    /\ sent = <<>>
    /\ last_msg = pre.msg
    /\ loop_pc = "frame"

\* The read fails while a finger is up, its chord sounds and its key is
\* shown.
C30_Witness ==
  /\ last_op = "read_failed"
  /\ prev_states # AllDown
  /\ active_keys # {}
  /\ active_notes # {}

(* ---------------------------- send_pitch_bend -------------------------- *)

\* Bend values: the ends, the centre and its neighbours, the values around
\* a carry into the MSB, and values spread over the 14 bits.
BendValues ==
  {0, 1, 127, 128, 129, 8191, 8192, 8193, 16255, 16256, 16383}
    \cup {(k * 331) % (BendMax + 1) : k \in 1..60}

InitSendBend ==
  /\ Constructed
  /\ args \in BendValues
  /\ ret = NoReturn

\* send_pitch_bend(bend_value), the player open: one write_short.
send_pitch_bend ==
  /\ ~ret.done
  /\ ret' = Returned("None")
  /\ sent' = <<PitchBend(args)>>
  /\ UNCHANGED <<current_scale, prev_states, active_notes, active_keys,
                 pinch_chord_playing, recording, recorded_notes, rec_age,
                 echo_enabled, releases, echoes, playbacks, loop_pc,
                 cleanup_notes, last_msg, last_op, actor, pre, frame, events,
                 emitted, args>>

SpecSendBend == InitSendBend /\ [][send_pitch_bend]_vars

\* C31: send_pitch_bend(v), v in 0..16383, sends one message with status
\* 0xE0, LSB v mod 128 and MSB v div 128, both in 0..127, so that
\* MSB * 128 + LSB = v; 8192 goes out as LSB 0, MSB 64.
C31_BendSplitsIntoSevenBits ==
  (ret.done /\ args \in 0..BendMax) =>
    /\ Len(sent) = 1
    /\ sent[1].type = "bend"
    /\ sent[1].status = 224
    /\ sent[1].lsb \in 0..127
    /\ sent[1].msb \in 0..127
    /\ sent[1].lsb = args % 128
    /\ sent[1].msb = args \div 128
    /\ sent[1].msb * 128 + sent[1].lsb = args
    /\ args = 8192 => (sent[1].lsb = 0 /\ sent[1].msb = 64)

\* The reset value has been sent.
C31_Witness ==
  /\ ret.done
  /\ args = 8192
  /\ sent = <<[type |-> "bend", status |-> 224, lsb |-> 0, msb |-> 64]>>

(* ------------------------------ stuck notes ---------------------------- *)

\* The main loop keeps taking frames and polling the keyboard, time passes,
\* and the operating system runs every thread that is ready.
SpecFair ==
  /\ Spec
  /\ WF_vars(\E hands \in HandFrames : FrameHands(hands, MaxReleases))
  /\ WF_vars(KeyNone)
  /\ WF_vars(Tick)
  /\ WF_vars(ThreadStep)

\* The last step was not a frame that raises a finger, pinches, shows no
\* hand or fails to be read, nor a scale change or the start of a playback.
QuietStep ==
  /\ last_op \notin {"no_hands", "read_failed", "cycle_scale",
                     "playback_recording"}
  /\ last_op = "hands" =>
       /\ frame # <<>>
       /\ \A k \in Idx(frame) :
            /\ ~PinchCondition(frame[k])
            /\ \A i \in 1..Len(finger_names) : frame[k].fingers[i] = 0

\* C32: when from some frame on every frame shows a hand and no finger up,
\* no hand pinches, the scale stays and no playback starts, active_notes
\* becomes empty for good and no note is left with a note-on as the last
\* message the synthesizer got.
C32_QuietFramesSilenceAll ==
  <>[]QuietStep => <>[](active_notes = {} /\ \A n \in AllNotes : last_msg[n] # "on")

(* -------------------- a press while a release is pending ----------------- *)

\* C33: a frame sends no note-on for a note that is in active_notes, and
\* it takes no stop_after_delay thread away, whatever it presses; a thread
\* whose sleep is over goes on to the note-off for each note of its chord
\* it finds in active_notes, sends it and discards the note, wherever the
\* finger is by then.
C33_PressKeepsPendingRelease ==
  /\ [](last_op = "hands" => \A n \in pre.an : ~HasOn(sent, n))
  /\ [](last_op = "release_check" =>
          /\ actor.elapsed >= sustain_time
          /\ actor.chord[actor.i] \in pre.an =>
               [actor EXCEPT !.pc = "off"] \in BagToSet(releases))
  /\ [](last_op = "release_off" =>
          sent = <<NoteOff(actor.chord[actor.i], OffVelocity)>>)
  /\ [](last_op = "release_discard" => actor.chord[actor.i] \notin active_notes)
  /\ [][last_op' = "hands" =>
          \A r \in BagToSet(releases) :
            CopiesIn(r, releases') >= CopiesIn(r, releases)]_vars

\* The thumb was lowered and raised again within the sustain time: its
\* release has run to the end, the thumb is up and its key is shown, and
\* no note of its chord is in active_notes.
C33_Witness ==
  /\ last_op = "release_discard"
  /\ releases = EmptyBag
  /\ <<"left", "thumb">> \in active_keys
  /\ prev_states["left"]["thumb"] = 1
  /\ SeqRange(scales[current_scale]["left"]["thumb"]) \cap active_notes = {}

(* --------------------------- chords that overlap ------------------------ *)

\* A left hand with no finger up, with thumb and middle finger up, and with
\* the middle finger alone: in C_Major the chords <<60, 64, 67>> and
\* <<64, 67, 71>>.
SharedFrames ==
  { <<Hand("Left", v, LandmarkCount, 60, 85, 200, 100)>> :
      v \in { <<0,0,0,0,0>>, <<1,0,1,0,0>>, <<0,0,1,0,0>> } }

\* The scale is changed, if at all, before anything is played.
NextShared ==
  \/ \E hands \in SharedFrames : FrameHands(hands, MaxReleases)
  \/ KeyNone
  \/ (active_notes = {} /\ releases = EmptyBag /\ cycle_scale)
  \/ Tick
  \/ ThreadStep

SpecShared == Init /\ [][NextShared]_vars

\* The fingers that are up and whose chord in the current scale holds n.
Holders(n) ==
  { key \in active_keys : n \in SeqRange(scales[current_scale][key[1]][key[2]]) }

\* C34: a stop_after_delay thread that finds the note it is at in
\* active_notes goes on to turn it off, and its discard takes the note out
\* of active_notes, whether or not the note belongs to the chord of a
\* finger that is up; the fingers that are up stay as they were.
C34_ReleaseIgnoresOtherHolders ==
  /\ last_op = "release_check" =>
       (actor.chord[actor.i] \in pre.an =>
          [actor EXCEPT !.pc = "off"] \in BagToSet(releases))
  /\ last_op = "release_discard" =>
       /\ active_notes = pre.an \ {actor.chord[actor.i]}
       /\ active_keys = pre.keys
       /\ prev_states = pre.prev

\* C_Major: the thumb's release has turned off 64 and 67 while the middle
\* finger, whose chord holds both, is up and its 71 sounds.
C34_Witness ==
  /\ last_op = "release_discard"
  /\ current_scale = "C_Major"
  /\ actor.chord = <<60, 64, 67>>
  /\ actor.i = 3
  /\ Holders(64) = {<<"left", "middle">>}
  /\ Holders(67) = {<<"left", "middle">>}
  /\ active_notes = {71}

(* ---------------------- the fingers of a pinching hand ------------------- *)

\* C35: after a frame in which a hand pinches, no finger of its side has a
\* release, prev_states of the side is all-down, and the notes of the
\* chords of its fingers that were up stay in active_notes as far as they
\* were in it; and a finger that a hand not pinching shows up while
\* prev_states has it down (as it is in the first such frame after the
\* pinch) gets a press.
C35_PinchForgetsFingers ==
  last_op = "hands" =>
    /\ \A side \in PinchingSides :
         /\ \A i \in 1..Len(finger_names) : Releases(side, i) = {}
         /\ prev_states[side] = AllDown[side]
         /\ \A f \in FingerSet :
              pre.prev[side][f] = 1 =>
                SeqRange(scales[current_scale][side][f]) \cap pre.an
                  \subseteq active_notes
    /\ \A k \in Idx(frame) : \A i \in 1..Len(finger_names) :
         (/\ ~PinchCondition(frame[k])
          /\ frame[k].fingers[i] = 1
          /\ pre.prev[HandKey(frame[k])][finger_names[i]] = 0) =>
           Presses(HandKey(frame[k]), i) # {}

\* The right hand pinches one frame after its little finger was up: the
\* chord <<81, 85, 88>> sounds on, without a release, and the little
\* finger counts as down.
C35_Witness ==
  /\ last_op = "hands"
  /\ "right" \in PinchingSides
  /\ pre.prev["right"]["pinky"] = 1
  /\ prev_states["right"]["pinky"] = 0
  /\ {81, 85, 88} \subseteq active_notes
  /\ releases = EmptyBag

(* --------------------------- the pinch flag ---------------------------- *)

\* The pitch bends among the messages of the last step.
BendsSent == SelectSeq(sent, LAMBDA m : m.type = "bend")

\* C36: after a frame with hands pinch_chord_playing is true exactly when a
\* hand of the frame pinches; after a frame without hands it is false, and
\* the frame has sent a pitch bend, one, of 8192 and as its last message,
\* exactly when the flag was true before.
C36_FlagFollowsPinch ==
  /\ last_op = "hands" => (pinch_chord_playing <=> PinchingSides # {})
  /\ last_op = "no_hands" =>
       /\ ~pinch_chord_playing
       /\ pre.pcp =>
            /\ BendsSent = <<PitchBend(BendCenter)>>
            /\ sent[Len(sent)] = PitchBend(BendCenter)
            /\ BendValue(sent[Len(sent)]) = 8192
       /\ ~pre.pcp => BendsSent = <<>>

\* The hands are lost while the pinch chord plays.
C36_Witness ==
  /\ last_op = "no_hands"
  /\ pre.pcp
  /\ ~pinch_chord_playing
  /\ BendsSent # <<>>

(* ------------------------- echoes that fire late ------------------------ *)

\* C37: while the player is open, a Timer that fires sends the note-on of
\* its note at its velocity and then adds the note to active_notes,
\* whatever active_notes holds and whatever the synthesizer got last for
\* the note; and no step but the Timer's own last one takes a Timer away:
\* no release, panic-stop or cleanup cancels it.
C37_EchoFiresUnchecked ==
  /\ [](last_op = "echo_send" =>
          /\ sent = <<NoteOn(actor.note, actor.velocity)>>
          /\ last_msg[actor.note] = "on"
          /\ [actor EXCEPT !.pc = "add"] \in BagToSet(echoes))
  /\ [](last_op = "echo_add" =>
          /\ actor.note \in active_notes
          /\ active_notes = pre.an \cup {actor.note})
  /\ [][BagCardinality(echoes') < BagCardinality(echoes) =>
          last_op' = "echo_add"]_vars

\* The Timer fires after a panic-stop or a release has turned its note
\* off: the note is not in active_notes, its last message is a note-off,
\* and the note-on goes out.
C37_Witness ==
  /\ last_op = "echo_send"
  /\ actor.note \notin pre.an
  /\ pre.msg[actor.note] = "off"
  /\ sent = <<NoteOn(actor.note, actor.velocity)>>

(* ------------------------- what the log records ------------------------ *)

\* A right hand that shows no finger, raises its thumb, or pinches.  A
\* recording is started, once; it is played back while it is made, once
\* the releases have ended, and no frame shows a hand and the program
\* does not end while the playback runs.
LogFrames ==
  { <<Hand("Right", <<0,0,0,0,0>>, LandmarkCount, 60, 85, 590, 100)>>,
    <<Hand("Right", <<1,0,0,0,0>>, LandmarkCount, 60, 85, 590, 100)>>,
    <<Hand("Right", <<1,1,0,0,0>>, LandmarkCount, 29, 85, 590, 100)>> }

NextLog ==
  \/ playbacks = EmptyBag /\ \E hands \in LogFrames : FrameHands(hands, MaxReleases)
  \/ playbacks = EmptyBag /\ FrameNoHands
  \/ KeyNone
  \/ (~recording /\ recorded_notes = <<>> /\ toggle_recording)
  \/ (recording /\ releases = EmptyBag /\ playback_recording)
  \/ playbacks = EmptyBag /\ cleanup
  \/ CleanupClear
  \/ CleanupClose
  \/ PlayerOpen /\ Tick
  \/ PlayerOpen /\ ThreadStep
  \/ PlayerOpen /\ \E r \in BagToSet(releases) : ReleaseAppend(r)
  \/ PlayerOpen /\ PlaybackStep

SpecLog == Init /\ [][NextLog]_vars

\* The events the last step has appended to the log, and the note-ons it
\* has sent.
NewEvents == SubSeq(recorded_notes, Len(pre.log) + 1, Len(recorded_notes))

OnsSent == SelectSeq(sent, LAMBDA m : m.type = "on")

\* C38: the log grows in a frame with hands and in the append of a
\* stop_after_delay thread only; a frame appends, while a recording runs,
\* one "on" event for each note-on that its presses and its pinch send, in
\* their order, and nothing for the note-offs of a pinch stop; the thread
\* appends the "off" event of its note; the panic-stop, the steps of a
\* playback thread and cleanup leave the log as it is.
C38_LogTakesPressPinchRelease ==
  /\ last_op \notin {"hands", "release_append", "toggle_recording"} =>
       recorded_notes = pre.log
  /\ last_op = "toggle_recording" => recorded_notes \in {pre.log, <<>>}
  /\ last_op = "hands" =>
       /\ Len(recorded_notes) >= Len(pre.log)
       /\ SubSeq(recorded_notes, 1, Len(pre.log)) = pre.log
       /\ Len(NewEvents) = IF recording THEN Len(OnsSent) ELSE 0
       /\ \A k \in Idx(NewEvents) :
            /\ NewEvents[k].action = "on"
            /\ NewEvents[k].note = OnsSent[k].note
            /\ NewEvents[k].velocity = OnsSent[k].velocity
  /\ last_op = "release_append" =>
       /\ Len(recorded_notes) = Len(pre.log) + 1
       /\ SubSeq(recorded_notes, 1, Len(pre.log)) = pre.log
       /\ NewEvents[1].action = "off"
       /\ NewEvents[1].note = actor.chord[actor.i]

\* While a recording runs that holds note-ons only, the hands are lost:
\* the panic-stop turns the recorded notes off and the log stays as it is.
C38_Witness ==
  /\ last_op = "no_hands"
  /\ recording
  /\ recorded_notes # <<>>
  /\ \A k \in Idx(recorded_notes) :
       /\ recorded_notes[k].action = "on"
       /\ HasOff(sent, recorded_notes[k].note)
  /\ recorded_notes = pre.log

====
